---- MODULE Spec2Model ----
(***************************************************************************)
(* A model of LocalDB.js (src/localdb.js): an SQL-like engine over rows    *)
(* kept as JSON in localStorage.                                           *)
(*                                                                         *)
(* Text (statement fragments, column names, text values) is a sequence of  *)
(* atoms.  An atom is a one-character string, or a whole word (a keyword,  *)
(* an identifier, a comparison operator) that the regular expressions of   *)
(* the source can only match as a unit.  Data is always spelled character  *)
(* by character, so two equal JavaScript strings are equal sequences.      *)
(* Whitespace between words is the single atom " ".  The text of a         *)
(* subquery inside a WHERE clause is one atom; Parsed gives the captures   *)
(* of selectRegex on it.                                                   *)
(*                                                                         *)
(* A JavaScript value is a record [k, n, s]: k is the kind ("undef",       *)
(* "null", "num", "str"), n the number, s the text.  A row is a sequence   *)
(* of fields [c, v] in property-creation order, as in a JavaScript object. *)
(***************************************************************************)
EXTENDS Integers, Sequences, FiniteSets, TLC

VARIABLES
  tables,   \* this.tables: table name -> schema entry (DOMAIN = the names)
  store,    \* localStorage, table keys only: table name -> stored rows
  last      \* the last statement given to execute() and its outcome

vars == <<tables, store, last>>

-----------------------------------------------------------------------------
(* Bounds of the model *)

\* INSERT is not tried on a table that holds this many rows
MaxRows == 2

\* the same, for the orders table
MaxOrders == 3

\* the same, for the table that ORDER BY sorts
MaxSorted == 3

\* the same, for the table that LIMIT cuts
MaxItems == 5

-----------------------------------------------------------------------------
(* JavaScript values *)

Undef == [k |-> "undef", n |-> 0, s |-> <<>>]
Null == [k |-> "null", n |-> 0, s |-> <<>>]
Num(n) == [k |-> "num", n |-> n, s |-> <<>>]
Str(s) == [k |-> "str", n |-> 0, s |-> s]

Digits == <<"0", "1", "2", "3", "4", "5", "6", "7", "8", "9">>

IsDigit(a) == \E i \in 1..10 : Digits[i] = a

DigitVal(a) == (CHOOSE i \in 1..10 : Digits[i] = a) - 1

\* String.prototype.trim
RECURSIVE TrimLeft(_)
TrimLeft(s) == IF s # <<>> /\ Head(s) = " " THEN TrimLeft(Tail(s)) ELSE s

RECURSIVE TrimRight(_)
TrimRight(s) ==
  IF s # <<>> /\ s[Len(s)] = " " THEN TrimRight(SubSeq(s, 1, Len(s) - 1)) ELSE s

Trim(s) == TrimRight(TrimLeft(s))

\* the value of a sequence of decimal digits
RECURSIVE DigitsValue(_)
DigitsValue(s) ==
  IF s = <<>> THEN 0
  ELSE 10 * DigitsValue(SubSeq(s, 1, Len(s) - 1)) + DigitVal(s[Len(s)])

AllDigits(s) == s # <<>> /\ \A i \in 1..Len(s) : IsDigit(s[i])

\* a number, or NaN
Number(n) == [nan |-> FALSE, n |-> n]
NaN == [nan |-> TRUE, n |-> 0]

\* Number(text) of a trimmed text, for the spellings the modelled alphabet
\* can write: an optional sign and decimal digits; the empty text is 0;
\* anything else is NaN
TrimmedToNumber(t) ==
  IF t = <<>> THEN Number(0)
  ELSE IF AllDigits(t) THEN Number(DigitsValue(t))
  ELSE IF Head(t) = "-" /\ AllDigits(Tail(t)) THEN Number(0 - DigitsValue(Tail(t)))
  ELSE NaN

\* Number(text): surrounding blanks are ignored
ToNumber(s) == TrimmedToNumber(Trim(s))

\* ToNumber of a value in a comparison: undefined is NaN, null is 0
ValueToNumber(v) ==
  CASE v.k = "undef" -> NaN
    [] v.k = "null" -> Number(0)
    [] v.k = "num" -> Number(v.n)
    [] v.k = "str" -> ToNumber(v.s)

\* the characters of the modelled alphabet in ascending code-unit order
CharOrder ==
  <<" ", "\"", "'", "(", ")", "*", ",", "-", ".",
    "0", "1", "2", "3", "4", "5", "6", "7", "8", "9", "x", "y", "z">>

CharRank(a) == CHOOSE i \in 1..Len(CharOrder) : CharOrder[i] = a

\* s < t for two strings: the first differing code unit decides
RECURSIVE StringLess(_, _)
StringLess(s, t) ==
  IF t = <<>> THEN FALSE
  ELSE IF s = <<>> THEN TRUE
  ELSE IF Head(s) = Head(t) THEN StringLess(Tail(s), Tail(t))
  ELSE CharRank(Head(s)) < CharRank(Head(t))

NumbersEq(x, y) == ~x.nan /\ ~y.nan /\ x.n = y.n
NumbersLess(x, y) == ~x.nan /\ ~y.nan /\ x.n < y.n
NumbersLessEq(x, y) == ~x.nan /\ ~y.nan /\ x.n <= y.n

IsNullish(v) == v.k \in {"undef", "null"}

\* a == b
LooseEq(a, b) ==
  IF IsNullish(a) \/ IsNullish(b) THEN IsNullish(a) /\ IsNullish(b)
  ELSE IF a.k = "str" /\ b.k = "str" THEN a.s = b.s
  ELSE NumbersEq(ValueToNumber(a), ValueToNumber(b))

\* a < b
Less(a, b) ==
  IF a.k = "str" /\ b.k = "str" THEN StringLess(a.s, b.s)
  ELSE NumbersLess(ValueToNumber(a), ValueToNumber(b))

\* a <= b: false when either side is NaN, otherwise not (b < a)
LessEq(a, b) ==
  IF a.k = "str" /\ b.k = "str" THEN ~StringLess(b.s, a.s)
  ELSE NumbersLessEq(ValueToNumber(a), ValueToNumber(b))

-----------------------------------------------------------------------------
(* Rows: JavaScript objects with ordered properties *)

HasField(row, col) == \E i \in 1..Len(row) : row[i].c = col

\* row[col]: undefined when the property is absent
Get(row, col) ==
  IF HasField(row, col)
  THEN row[CHOOSE i \in 1..Len(row) : row[i].c = col].v
  ELSE Undef

\* row[col] = v: an existing property keeps its place, a new one goes last
SetField(row, col, v) ==
  IF HasField(row, col)
  THEN [i \in 1..Len(row) |-> IF row[i].c = col THEN [c |-> col, v |-> v] ELSE row[i]]
  ELSE Append(row, [c |-> col, v |-> v])

\* JSON.parse(JSON.stringify(data)): properties holding undefined are dropped
IsDefined(f) == f.v.k # "undef"

JsonRow(row) == SelectSeq(row, IsDefined)

JsonRows(data) == [i \in 1..Len(data) |-> JsonRow(data[i])]

\* the elements of data whose flag is set
RECURSIVE Pick(_, _)
Pick(data, flags) ==
  IF data = <<>> THEN <<>>
  ELSE IF Head(flags) THEN <<Head(data)>> \o Pick(Tail(data), Tail(flags))
  ELSE Pick(Tail(data), Tail(flags))

-----------------------------------------------------------------------------
(* The table store: localStorage *)

\* getTableData: the stored rows, or [] when the key is absent
getTableData(st, tableName) ==
  IF tableName \in DOMAIN st THEN st[tableName] ELSE <<>>

\* saveTableData: localStorage.setItem(key, JSON.stringify(data))
saveTableData(st, tableName, data) ==
  [n \in DOMAIN st \cup {tableName} |->
     IF n = tableName THEN JsonRows(data) ELSE st[n]]

\* localStorage.removeItem(key)
removeItem(st, tableName) == [n \in DOMAIN st \ {tableName} |-> st[n]]

-----------------------------------------------------------------------------
(* Literals *)

\* the last two cases of parseValue, on the trimmed text and its Number()
numberOrText(val, number) ==
  IF ~number.nan /\ val # <<>> THEN Num(number.n) ELSE Str(val)

IsQuoted(val) ==
  /\ val # <<>>
  /\ \/ Head(val) = "'" /\ val[Len(val)] = "'"
     \/ Head(val) = "\"" /\ val[Len(val)] = "\""

parseTrimmed(val) ==
  IF IsQuoted(val) THEN Str(SubSeq(val, 2, Len(val) - 1))
  ELSE numberOrText(val, TrimmedToNumber(val))

\* parseValue: a quoted text loses its quotes, a numeric text is a number,
\* anything else is itself
parseValue(val) == parseTrimmed(Trim(val))

\* parseValues: the loop over the characters of the VALUES text; i is the
\* next character, values/current/inString/stringChar the loop's variables
RECURSIVE parseValuesFrom(_, _, _, _, _, _)
parseValuesFrom(valuesStr, i, values, current, inString, stringChar) ==
  IF i > Len(valuesStr)
  THEN IF current # <<>> THEN Append(values, parseValue(current)) ELSE values
  ELSE IF (valuesStr[i] = "'" \/ valuesStr[i] = "\"") /\ ~inString
  THEN parseValuesFrom(valuesStr, i + 1, values, Append(current, valuesStr[i]),
                       TRUE, valuesStr[i])
  ELSE IF valuesStr[i] = stringChar /\ inString
  THEN parseValuesFrom(valuesStr, i + 1, values, Append(current, valuesStr[i]),
                       FALSE, stringChar)
  ELSE IF valuesStr[i] = "," /\ ~inString
  THEN parseValuesFrom(valuesStr, i + 1, Append(values, parseValue(current)), <<>>,
                       inString, stringChar)
  ELSE parseValuesFrom(valuesStr, i + 1, values, Append(current, valuesStr[i]),
                       inString, stringChar)

parseValues(valuesStr) == parseValuesFrom(valuesStr, 1, <<>>, <<>>, FALSE, "")

\* the decimal spelling of a number: String(n)
RECURSIVE Decimal(_)
Decimal(n) ==
  IF n < 0 THEN <<"-">> \o Decimal(0 - n)
  ELSE IF n < 10 THEN <<Digits[n + 1]>>
  ELSE Decimal(n \div 10) \o <<Digits[(n % 10) + 1]>>

-----------------------------------------------------------------------------
(* Text matching *)

\* \w+ : an identifier or number, as opposed to blanks and punctuation
NonWord ==
  {" ", "'", "\"", "(", ")", "*", ",", ".", "-", "|",
   ">=", "<=", "!=", "<>", "=", ">", "<"}

IsWord(a) == a \notin NonWord

Contains(s, a) == \E i \in 1..Len(s) : s[i] = a

IndexOf(s, a) == CHOOSE i \in 1..Len(s) : s[i] = a /\ \A j \in 1..(i - 1) : s[j] # a

\* text.split(a): the pieces of text between the occurrences of atom a
RECURSIVE Split(_, _)
SplitAt(s, a, i) == <<SubSeq(s, 1, i - 1)>> \o Split(SubSeq(s, i + 1, Len(s)), a)
Split(s, a) == IF Contains(s, a) THEN SplitAt(s, a, IndexOf(s, a)) ELSE <<s>>

\* col.includes('.') ? col.split('.')[1] : col
StripQualifier(col) == IF Contains(col, ".") THEN Split(col, ".")[2] ELSE col

\* where /\s+(AND|OR)\s+/i matches at position i of the clause
IsConnectiveAt(s, i) ==
  /\ i + 2 <= Len(s)
  /\ s[i] = " "
  /\ s[i + 1] \in {"AND", "OR"}
  /\ s[i + 2] = " "

\* name.toLowerCase(), for the table names of the model
LowerCase == [A |-> "a", B |-> "b", C |-> "c", O |-> "o", I |-> "i"]

toLowerCase(name) == IF name \in DOMAIN LowerCase THEN LowerCase[name] ELSE name

\* evaluateWhere(row, whereClause) is called without a table name
NoTable == "(null)"

\* A SELECT statement is the record of what the regular expressions of
\* select() capture from its text:
\*   columns    the projection list split at its commas (Star for *)
\*   from       the table name; for a derived table, the alias after AS
\*   sub        <<>>, or <<q>> for FROM (q) AS alias
\*   where, groupBy, having, orderBy, limit   the clause texts (<<>> when
\*              absent); groupBy is the list of its columns
\*   distinct   whether DISTINCT follows SELECT
\*   wellFormed FALSE when selectRegex does not match the text
Query(columns, from, where) ==
  [columns |-> columns, from |-> from, sub |-> <<>>, where |-> where,
   groupBy |-> <<>>, having |-> <<>>, orderBy |-> <<>>, limit |-> <<>>,
   distinct |-> FALSE, wellFormed |-> TRUE]

\* The text of a subquery is one atom, and Parsed gives what selectRegex
\* captures from it.  The ones used in an IN list hold no parenthesis, and
\* the ones used as the right side of a comparison hold no comparison
\* operator.  The last text is a derived table under the alias t whose
\* outer query ends at WHERE: derivedTableRegex matches it, and the text
\* 'SELECT 1 FROM t WHERE' it is rewritten to matches no pattern of select.
\* It is used after EXISTS, whose pattern runs to the last parenthesis.
SubqueryTexts ==
  {"SELECT 1 FROM I WHERE I.c = O.d", "SELECT 1 FROM I", "SELECT c FROM I",
   "SELECT 1 FROM (SELECT * FROM t WHERE a = 1) AS t WHERE"}

Parsed(text) ==
  CASE text = "SELECT 1 FROM I WHERE I.c = O.d"
         -> Query(<<<<"1">>>>, "I", <<"I", ".", "c", " ", "=", " ", "O", ".", "d">>)
    [] text = "SELECT 1 FROM I" -> Query(<<<<"1">>>>, "I", <<>>)
    [] text = "SELECT c FROM I" -> Query(<<<<"c">>>>, "I", <<>>)
    [] text = "SELECT 1 FROM (SELECT * FROM t WHERE a = 1) AS t WHERE"
         -> [Query(<<<<"1">>>>, "t", <<>>)
               EXCEPT !.sub = <<Query(<<<<"*">>>>, "t", <<"a", " ", "=", " ", "1">>)>>,
                      !.wellFormed = FALSE]

\* text.toUpperCase().startsWith('SELECT')
startsWithSelect(text) == text # <<>> /\ text[1] \in SubqueryTexts \cup {"SELECT"}

\* the place after the blank at k, if there is one: \s*
AfterBlank(s, k) == IF k <= Len(s) /\ s[k] = " " THEN k + 1 ELSE k

\* the place of the "(" that \s*\( matches at k, 0 if it does not match
ParenAfter(s, k) ==
  IF AfterBlank(s, k) <= Len(s) /\ s[AfterBlank(s, k)] = "(" THEN AfterBlank(s, k) ELSE 0

\* /^(\w+\s+(?:NOT\s+)?IN\s*\()/i at place i: the place of its "(", or 0
InOpen(s, i) ==
  IF i + 2 > Len(s) \/ ~IsWord(s[i]) \/ s[i + 1] # " " THEN 0
  ELSE IF s[i + 2] = "IN" THEN ParenAfter(s, i + 3)
  ELSE IF i + 4 <= Len(s) /\ s[i + 2] = "NOT" /\ s[i + 3] = " " /\ s[i + 4] = "IN"
  THEN ParenAfter(s, i + 5)
  ELSE 0

\* the place after the parenthesis that closes the one opened before j
RECURSIVE closeAfter(_, _, _)
closeAfter(s, j, parenDepth) ==
  IF j > Len(s) \/ parenDepth = 0 THEN j
  ELSE closeAfter(s, j + 1,
                  IF s[j] = "(" THEN parenDepth + 1
                  ELSE IF s[j] = ")" THEN parenDepth - 1
                  ELSE parenDepth)

\* the places of the clause that evaluateWhere replaces by __PROTECTED_n__:
\* each IN condition up to its closing parenthesis
RECURSIVE protectedPlaces(_, _, _)
protectedPlaces(s, i, places) ==
  IF i > Len(s) THEN places
  ELSE IF InOpen(s, i) # 0
  THEN protectedPlaces(s, closeAfter(s, InOpen(s, i) + 1, 1),
                       places \cup (i..(closeAfter(s, InOpen(s, i) + 1, 1) - 1)))
  ELSE protectedPlaces(s, i + 1, places)

\* processedClause.split(/\s+(AND|OR)\s+/i) with the protected conditions
\* put back: the clause is split at the connectives outside places
RECURSIVE splitOutside(_, _, _, _)
splitOutside(s, places, start, i) ==
  IF i > Len(s) THEN <<SubSeq(s, start, Len(s))>>
  ELSE IF IsConnectiveAt(s, i) /\ {i, i + 1, i + 2} \cap places = {}
  THEN <<SubSeq(s, start, i - 1), <<s[i + 1]>>>> \o splitOutside(s, places, i + 3, i + 3)
  ELSE splitOutside(s, places, start, i + 1)

\* whether p is at the head of s as new RegExp(`${p}\\b`, 'i') matches it
MatchesHead(s, p) ==
  /\ Len(p) <= Len(s)
  /\ \A k \in 1..Len(p) : toLowerCase(s[k]) = toLowerCase(p[k])
  /\ Len(s) = Len(p) \/ ~IsWord(s[Len(p) + 1])

\* s.replace(new RegExp(`${p}\\b`, 'gi'), t)
RECURSIVE ReplaceAll(_, _, _)
ReplaceAll(s, p, t) ==
  IF s = <<>> THEN s
  ELSE IF MatchesHead(s, p) THEN t \o ReplaceAll(SubSeq(s, Len(p) + 1, Len(s)), p, t)
  ELSE <<Head(s)>> \o ReplaceAll(Tail(s), p, t)

-----------------------------------------------------------------------------
(* The predicate evaluator *)

\* the result of an evaluation: [ok, b], ok false when it throws
Bool(b) == [ok |-> TRUE, b |-> b]

\* /(\w+)\s+BETWEEN\s+(.+?)\s+AND\s+(.+?)(?=\s*$)/i on a trimmed condition:
\* b is the place of BETWEEN and a the place of the first AND that a lower
\* bound precedes
BetweenAt(c, b, a) ==
  /\ b >= 3 /\ c[b] = "BETWEEN" /\ c[b - 1] = " " /\ IsWord(c[b - 2])
  /\ c[b + 1] = " "
  /\ a >= b + 4 /\ a + 2 <= Len(c)
  /\ c[a] = "AND" /\ c[a - 1] = " " /\ c[a + 1] = " "

BetweenMatches(c) == \E b \in 1..Len(c), a \in 1..Len(c) : BetweenAt(c, b, a)

BetweenPlace(c) ==
  CHOOSE p \in (1..Len(c)) \X (1..Len(c)) :
    /\ BetweenAt(c, p[1], p[2])
    /\ \A q \in (1..Len(c)) \X (1..Len(c)) :
         BetweenAt(c, q[1], q[2]) => (q[1] > p[1] \/ (q[1] = p[1] /\ q[2] >= p[2]))

\* return row[col] >= min && row[col] <= max
betweenResult(rowValue, min, max) == Bool(LessEq(min, rowValue) /\ LessEq(rowValue, max))

evaluateBetween(row, c, p) ==
  betweenResult(Get(row, <<c[p[1] - 2]>>),
                parseValue(SubSeq(c, p[1] + 2, p[2] - 2)),
                parseValue(SubSeq(c, p[2] + 2, Len(c))))

\* /(\w+)\s+IS\s+(NOT\s+)?NULL/i
IsNullAt(c, i) ==
  /\ i >= 3 /\ c[i] = "IS" /\ c[i - 1] = " " /\ IsWord(c[i - 2])
  /\ i + 2 <= Len(c) /\ c[i + 1] = " "
  /\ \/ c[i + 2] = "NULL"
     \/ i + 4 <= Len(c) /\ c[i + 2] = "NOT" /\ c[i + 3] = " " /\ c[i + 4] = "NULL"

IsNullMatches(c) == \E i \in 1..Len(c) : IsNullAt(c, i)

IsNullPlace(c) ==
  CHOOSE k \in 1..Len(c) : IsNullAt(c, k) /\ \A j \in 1..(k - 1) : ~IsNullAt(c, j)

evaluateIsNull(row, c, i) ==
  Bool(IF c[i + 2] = "NOT" THEN ~IsNullish(Get(row, <<c[i - 2]>>))
       ELSE IsNullish(Get(row, <<c[i - 2]>>)))

\* const operators = ['>=', '<=', '!=', '<>', '=', '>', '<']
operators == <<">=", "<=", "!=", "<>", "=", ">", "<">>

HasOperator(c) == \E i \in 1..Len(operators) : Contains(c, operators[i])

\* the first element of operators that the condition includes
FirstOperator(c) ==
  operators[CHOOSE i \in 1..Len(operators) :
              /\ Contains(c, operators[i])
              /\ \A j \in 1..(i - 1) : ~Contains(c, operators[j])]

\* the switch over op.  Its second label is the text '!= ' with a trailing
\* blank, which no element of operators equals, so '!=' takes the default.
compare(op, rowValue, val) ==
  CASE op = "=" -> LooseEq(rowValue, val)
    [] op = "!= " -> ~LooseEq(rowValue, val)
    [] op = "<>" -> ~LooseEq(rowValue, val)
    [] op = ">" -> Less(val, rowValue)
    [] op = "<" -> Less(rowValue, val)
    [] op = ">=" -> LessEq(val, rowValue)
    [] op = "<=" -> LessEq(rowValue, val)
    [] OTHER -> FALSE

\* the result of evaluating a clause against a row: ok is FALSE when the
\* evaluation throws, b is the value returned, db the database it leaves
\* (a subquery that select runs may write to it)
Result(b, db) == [ok |-> TRUE, b |-> b, db |-> db]

Failed(db) == [ok |-> FALSE, b |-> FALSE, db |-> db]

\* the result r of a leaf that runs no subquery
Leaving(db, r) == [ok |-> r.ok, b |-> r.b, db |-> db]

\* the database: the schema entries and the entries of localStorage
Database(tbls, st) == [tables |-> tbls, store |-> st]

\* what a statement that returns, and one that throws, leaves
Returned(db, rows, count) ==
  [ok |-> TRUE, rows |-> rows, count |-> count, tables |-> db.tables, store |-> db.store]

Thrown(db) ==
  [ok |-> FALSE, rows |-> <<>>, count |-> 0, tables |-> db.tables, store |-> db.store]

\* the database a statement leaves
After(r) == Database(r.tables, r.store)

RECURSIVE select(_, _)
RECURSIVE selectText(_, _)
RECURSIVE evaluateWhere(_, _, _, _)

\* execute(query) of a subquery: the text is trimmed and, as it starts with
\* SELECT, given to select; text that follows a subquery written as one
\* atom fits no pattern of select
execute(db, query) ==
  IF query[1] \in SubqueryTexts
  THEN IF Len(query) = 1 THEN select(db, Parsed(query[1])) ELSE Thrown(db)
  ELSE selectText(db, query)

\* whether the name of a property is an array index: such properties come
\* first, in ascending order, in Object.values
IsIndexName(col) == col # <<>> /\ \A k \in 1..Len(col) : IsDigit(col[k])

\* Object.values(r)[0]
firstValue(r) ==
  IF r = <<>> THEN Undef
  ELSE IF \E i \in 1..Len(r) : IsIndexName(r[i].c)
  THEN r[CHOOSE i \in 1..Len(r) :
           /\ IsIndexName(r[i].c)
           /\ \A j \in 1..Len(r) :
                IsIndexName(r[j].c) => DigitsValue(r[i].c) <= DigitsValue(r[j].c)].v
  ELSE r[1].v

\* values.includes(v)
includes(values, v) == \E k \in 1..Len(values) : values[k] = v

\* /(\w+)\s+(NOT\s+)?IN\s*\((.*?)\)(?:\s|$)/i: the place of the first ")"
\* after open that a blank or the end follows, 0 if there is none
CloseOfList(c, open) ==
  IF \E k \in (open + 1)..Len(c) : c[k] = ")" /\ (k = Len(c) \/ c[k + 1] = " ")
  THEN CHOOSE k \in (open + 1)..Len(c) :
         /\ c[k] = ")" /\ (k = Len(c) \/ c[k + 1] = " ")
         /\ \A j \in (open + 1)..(k - 1) : ~(c[j] = ")" /\ c[j + 1] = " ")
  ELSE 0

\* the pattern of NOT IN (not = TRUE) or of IN matches with its column at i
ListAt(c, i, not) ==
  /\ InOpen(c, i) # 0
  /\ (c[i + 2] = "NOT") = not
  /\ CloseOfList(c, InOpen(c, i)) # 0

ListPlace(c, not) ==
  CHOOSE i \in 1..Len(c) : ListAt(c, i, not) /\ \A j \in 1..(i - 1) : ~ListAt(c, j, not)

\* subqueryResult.map(r => Object.values(r)[0])
firstValues(rows) == [k \in 1..Len(rows) |-> firstValue(rows[k])]

\* innerContent.split(',').map(v => this.parseValue(v.trim()))
listValues(parts) == [k \in 1..Len(parts) |-> parseValue(Trim(parts[k]))]

\* return values.includes(row[col]), negated for NOT IN
inSubquery(not, rowValue, r) ==
  IF ~r.ok THEN Failed(After(r))
  ELSE Result(not # includes(firstValues(r.rows), rowValue), After(r))

inContent(db, not, rowValue, innerContent) ==
  IF startsWithSelect(innerContent) THEN inSubquery(not, rowValue, execute(db, innerContent))
  ELSE Result(not # includes(listValues(Split(innerContent, ",")), rowValue), db)

\* the NOT IN and IN branches of evaluateCondition, the column at place i
evaluateIn(db, row, c, i, not) ==
  inContent(db, not, Get(row, <<c[i]>>),
            Trim(SubSeq(c, InOpen(c, i) + 1, CloseOfList(c, InOpen(c, i)) - 1)))

\* val = Object.values(subqueryResult[0])[0], or return false for no row
compareScalar(op, rowValue, r) ==
  IF ~r.ok THEN Failed(After(r))
  ELSE IF r.rows = <<>> THEN Result(FALSE, After(r))
  ELSE Result(compare(op, rowValue, firstValue(r.rows[1])), After(r))

\* the comparison once col and val are split: a val that starts with SELECT
\* is executed, any other is parsed as a literal
compareValue(db, op, rowValue, val) ==
  IF startsWithSelect(val) THEN compareScalar(op, rowValue, execute(db, val))
  ELSE Result(compare(op, rowValue, parseValue(val)), db)

\* [col, val] = condition.split(operator).map(s => s.trim()), then the switch
compareParts(db, row, op, parts) ==
  compareValue(db, op, Get(row, StripQualifier(Trim(parts[1]))), Trim(parts[2]))

evaluateComparison(db, row, c, op) == compareParts(db, row, op, Split(c, op))

\* evaluateCondition on the trimmed condition (the LIKE pattern, tried
\* first in the source, is not modelled: no condition here holds LIKE)
evaluateTrimmed(db, row, c, tableName) ==
  IF \E i \in 1..Len(c) : ListAt(c, i, TRUE)
  THEN evaluateIn(db, row, c, ListPlace(c, TRUE), TRUE)
  ELSE IF \E i \in 1..Len(c) : ListAt(c, i, FALSE)
  THEN evaluateIn(db, row, c, ListPlace(c, FALSE), FALSE)
  ELSE IF BetweenMatches(c) THEN Leaving(db, evaluateBetween(row, c, BetweenPlace(c)))
  ELSE IF IsNullMatches(c) THEN Leaving(db, evaluateIsNull(row, c, IsNullPlace(c)))
  ELSE IF ~HasOperator(c) THEN Result(FALSE, db)
  ELSE evaluateComparison(db, row, c, FirstOperator(c))

\* evaluateCondition: one leaf of a WHERE or HAVING clause against a row
evaluateCondition(db, row, condition, tableName) ==
  evaluateTrimmed(db, row, Trim(condition), tableName)

\* formatValue
formatValue(value) ==
  CASE value.k \in {"null", "undef"} -> <<"NULL">>
    [] value.k = "str" -> <<"'">> \o value.s \o <<"'">>
    [] OTHER -> Decimal(value.n)

\* one q.replace(pattern, formatValue(row[col])) of correlateSubquery, on
\* the captures of the subquery that hold text
replaceIn(q, pattern, text) ==
  [q EXCEPT !.columns = [k \in 1..Len(q.columns) |-> ReplaceAll(q.columns[k], pattern, text)],
            !.where = ReplaceAll(q.where, pattern, text)]

\* correlateSubquery: Object.keys(row).forEach(col => ...) when tableName
\* is given
RECURSIVE correlateFrom(_, _, _, _)
correlateFrom(q, row, tableName, i) ==
  IF i > Len(row) THEN q
  ELSE correlateFrom(replaceIn(q, <<tableName, ".">> \o row[i].c, formatValue(row[i].v)),
                     row, tableName, i + 1)

correlateSubquery(q, row, tableName) ==
  IF tableName = NoTable THEN q ELSE correlateFrom(q, row, tableName, 1)

\* /(NOT\s+)?EXISTS\s*\((SELECT\s+.+?)\)(?=\s*(AND|OR|$))/i with EXISTS at
\* place i of the clause
ExistsAt(s, i) ==
  /\ s[i] = "EXISTS"
  /\ ParenAfter(s, i + 1) # 0
  /\ ParenAfter(s, i + 1) + 2 <= Len(s)
  /\ s[ParenAfter(s, i + 1) + 1] \in SubqueryTexts
  /\ s[ParenAfter(s, i + 1) + 2] = ")"
  /\ \/ AfterBlank(s, ParenAfter(s, i + 1) + 3) > Len(s)
     \/ s[AfterBlank(s, ParenAfter(s, i + 1) + 3)] \in {"AND", "OR"}

ExistsPlace(s) ==
  CHOOSE i \in 1..Len(s) : ExistsAt(s, i) /\ \A j \in 1..(i - 1) : ~ExistsAt(s, j)

\* whether the match begins with NOT
notKeyword(s, i) == i >= 3 /\ s[i - 2] = "NOT" /\ s[i - 1] = " "

\* whereClause.replace(fullMatch, '').trim()
remainingWhere(s, i) ==
  Trim(SubSeq(s, 1, IF notKeyword(s, i) THEN i - 3 ELSE i - 1)
       \o SubSeq(s, ParenAfter(s, i + 1) + 3, Len(s)))

\* return conditionResult && remainingResult
existsRemaining(conditionResult, remainingResult) ==
  IF ~remainingResult.ok THEN remainingResult
  ELSE Result(conditionResult /\ remainingResult.b, remainingResult.db)

\* conditionResult, joined with the rest of the clause if there is one
existsResult(db, row, remaining, tableName, conditionResult) ==
  IF remaining = <<>> THEN Result(conditionResult, db)
  ELSE existsRemaining(conditionResult, evaluateWhere(db, row, remaining, tableName))

existsExecuted(db, row, remaining, tableName, isNotExists, r) ==
  IF ~r.ok THEN Failed(After(r))
  ELSE existsResult(After(r), row, remaining, tableName, isNotExists # (Len(r.rows) > 0))

\* evaluateExistsCondition, EXISTS at place i of the clause
evaluateExistsCondition(db, row, whereClause, i, tableName) ==
  existsExecuted(db, row, remainingWhere(whereClause, i), tableName,
                 notKeyword(whereClause, i),
                 select(db, correlateSubquery(Parsed(whereClause[ParenAfter(whereClause, i + 1) + 1]),
                                              row, tableName)))

\* result = result && conditionResult, or result || conditionResult
combine(operator, result, conditionResult) ==
  IF operator = "AND" THEN result /\ conditionResult ELSE result \/ conditionResult

\* the loop of evaluateWhere over the split clause: i is the next element,
\* result and operator the loop's variables
RECURSIVE evaluateWhereFrom(_, _, _, _, _, _, _)
evaluateLeaf(row, conditions, tableName, i, result, operator, r) ==
  IF ~r.ok THEN r
  ELSE evaluateWhereFrom(r.db, row, conditions, tableName, i + 1,
                         combine(operator, result, r.b), operator)
evaluateWhereFrom(db, row, conditions, tableName, i, result, operator) ==
  IF i > Len(conditions) THEN Result(result, db)
  ELSE IF conditions[i] = <<"AND">> \/ conditions[i] = <<"OR">>
  THEN evaluateWhereFrom(db, row, conditions, tableName, i + 1, result, conditions[i][1])
  ELSE IF Contains(conditions[i], "EXISTS")
  THEN evaluateWhereFrom(db, row, conditions, tableName, i + 1, result, operator)
  ELSE evaluateLeaf(row, conditions, tableName, i, result, operator,
                    evaluateCondition(db, row, conditions[i], tableName))

\* evaluateWhere: a clause with EXISTS goes to evaluateExistsCondition; any
\* other is split at AND and OR and folded left to right
evaluateWhere(db, row, whereClause, tableName) ==
  IF \E i \in 1..Len(whereClause) : ExistsAt(whereClause, i)
  THEN evaluateExistsCondition(db, row, whereClause, ExistsPlace(whereClause), tableName)
  ELSE evaluateWhereFrom(db, row,
                         splitOutside(whereClause, protectedPlaces(whereClause, 1, {}), 1, 1),
                         tableName, 1, TRUE, "AND")

\* data.filter(row => evaluateWhere(row, clause, tableName)), or every row
\* when there is no clause: flags[i] is [ok, b, db], b telling whether row
\* i passes; each row is evaluated in the database the rows before it left
RECURSIVE flagsFrom(_, _, _, _, _)
flagsNext(data, whereClause, tableName, i, r) ==
  <<r>> \o flagsFrom(r.db, data, whereClause, tableName, i + 1)
flagsFrom(db, data, whereClause, tableName, i) ==
  IF i > Len(data) THEN <<>>
  ELSE flagsNext(data, whereClause, tableName, i,
                 evaluateWhere(db, data[i], whereClause, tableName))

whereFlags(db, data, whereClause, tableName) ==
  IF whereClause = <<>> THEN [i \in 1..Len(data) |-> Result(TRUE, db)]
  ELSE flagsFrom(db, data, whereClause, tableName, 1)

AllOk(flags) == \A i \in 1..Len(flags) : flags[i].ok

Flags(flags) == [i \in 1..Len(flags) |-> flags[i].b]

NotFlags(flags) == [i \in 1..Len(flags) |-> ~flags[i].b]

\* the database the filter leaves: the evaluation stops at the first row
\* for which it throws
filterDatabase(db, flags) ==
  IF flags = <<>> THEN db
  ELSE IF AllOk(flags) THEN flags[Len(flags)].db
  ELSE flags[CHOOSE i \in 1..Len(flags) :
               ~flags[i].ok /\ \A j \in 1..(i - 1) : flags[j].ok].db

-----------------------------------------------------------------------------
(* Statements.  A statement operator takes the database db = [tables,      *)
(* store] and returns [ok, rows, count, tables, store]: ok is false when   *)
(* the statement throws, tables and store are the database it leaves.      *)

EmptyMap == [n \in {} |-> <<>>]

\* this.tables[tableName] = entry
WithTable(tbls, tableName, entry) ==
  [n \in DOMAIN tbls \cup {tableName} |-> IF n = tableName THEN entry ELSE tbls[n]]

\* delete this.tables[tableName]
WithoutTable(tbls, tableName) == [n \in DOMAIN tbls \ {tableName} |-> tbls[n]]

\* extractPrimaryKey: the first column whose type words hold PRIMARY KEY
\* (<<>> stands for null)
IsKeyColumn(d) == Contains(d.type, "PRIMARY")

FirstName(defs) == IF defs = <<>> THEN <<>> ELSE defs[1].name

extractPrimaryKey(columnDefs) == FirstName(SelectSeq(columnDefs, IsKeyColumn))

\* createTable: columnDefs is the parsed column list, a sequence of
\* [name, type]
createTable(db, tableName, columnDefs) ==
  IF tableName \in DOMAIN db.tables THEN Thrown(db)
  ELSE Returned(Database(WithTable(db.tables, tableName,
                                   [columns |-> columnDefs,
                                    primaryKey |-> extractPrimaryKey(columnDefs)]),
                         saveTableData(db.store, tableName, <<>>)),
                <<>>, 0)

\* the group (.*?) of /\((.*?)\)/ : the text up to the first ")"
UpToCloseParen(s) == IF Contains(s, ")") THEN SubSeq(s, 1, IndexOf(s, ")") - 1) ELSE s

\* columns.forEach((col, index) => { row[col] = values[index]; })
RECURSIVE rowFrom(_, _, _, _)
rowFrom(columns, values, index, row) ==
  IF index > Len(columns) THEN row
  ELSE rowFrom(columns, values, index + 1,
               SetField(row, columns[index],
                        IF index <= Len(values) THEN values[index] ELSE Undef))

\* insert: columns is the column list split at its commas, valuesText the
\* text the statement holds between the parentheses after VALUES
insert(db, tableName, columns, valuesText) ==
  IF tableName \notin DOMAIN db.tables THEN Thrown(db)
  ELSE Returned(Database(db.tables,
                         saveTableData(db.store, tableName,
                           Append(getTableData(db.store, tableName),
                                  rowFrom(columns,
                                          parseValues(UpToCloseParen(valuesText)),
                                          1, <<>>)))),
                <<>>, 1)

-----------------------------------------------------------------------------
(* SELECT *)

\* an element of an array under Array.prototype.join: null and undefined
\* are written as the empty text
JoinText(v) ==
  CASE v.k = "num" -> Decimal(v.n)
    [] v.k = "str" -> v.s
    [] OTHER -> <<>>

\* array.join(sep)
RECURSIVE Join(_, _)
Join(texts, sep) ==
  IF texts = <<>> THEN <<>>
  ELSE IF Len(texts) = 1 THEN texts[1]
  ELSE texts[1] \o sep \o Join(Tail(texts), sep)

\* whether pat occurs in s as consecutive atoms
ContainsSeq(s, pat) ==
  \E i \in 1..(Len(s) - Len(pat) + 1) : SubSeq(s, i, i + Len(pat) - 1) = pat

CountStar == <<"COUNT", "(", "*", ")">>

\* row['COUNT(*)'] !== undefined ? row['COUNT(*)'] : 1
countOrOne(v) == IF v.k # "undef" THEN v ELSE Num(1)

\* evaluateExpression: COUNT(*) reads the row's "COUNT(*)" field and is 1
\* when the row has none; a qualified name reads the bare column
evaluateExpression(expr, row) ==
  IF ContainsSeq(expr, CountStar) THEN countOrOne(Get(row, CountStar))
  ELSE Get(row, StripQualifier(Trim(expr)))

\* the key of a row's group: the group columns' values joined by '|'
groupKey(row, groupColumns) ==
  Join([i \in 1..Len(groupColumns) |->
          JoinText(Get(row, StripQualifier(groupColumns[i])))], <<"|">>)

\* groups[groupKey].keys: the group columns, as written, with the row's values
RECURSIVE groupKeys(_, _, _, _)
groupKeys(row, groupColumns, i, keys) ==
  IF i > Len(groupColumns) THEN keys
  ELSE groupKeys(row, groupColumns, i + 1,
                 SetField(keys, groupColumns[i],
                          Get(row, StripQualifier(groupColumns[i]))))

\* if (!groups[groupKey]) groups[groupKey] = {...}; groups[groupKey].rows.push(row)
\* groups is the sequence of the object's properties [key, rows, keys] in
\* creation order
addToGroup(groups, row, key, groupColumns) ==
  IF \E g \in 1..Len(groups) : groups[g].key = key
  THEN [g \in 1..Len(groups) |->
          IF groups[g].key = key THEN [groups[g] EXCEPT !.rows = Append(@, row)]
          ELSE groups[g]]
  ELSE Append(groups, [key |-> key, rows |-> <<row>>,
                       keys |-> groupKeys(row, groupColumns, 1, <<>>)])

\* data.forEach(row => ...)
RECURSIVE makeGroups(_, _, _, _)
makeGroups(data, groupColumns, i, groups) ==
  IF i > Len(data) THEN groups
  ELSE makeGroups(data, groupColumns, i + 1,
                  addToGroup(groups, data[i], groupKey(data[i], groupColumns),
                             groupColumns))

\* a property name that is an array index: a canonical non-negative integer
IsIndexKey(key) == AllDigits(key) /\ (Len(key) = 1 \/ Head(key) # "0")

HasIndexKey(g) == IsIndexKey(g.key)

HasOtherKey(g) == ~IsIndexKey(g.key)

SmallestIndex(groups) ==
  CHOOSE i \in 1..Len(groups) :
    \A j \in 1..Len(groups) : DigitsValue(groups[i].key) <= DigitsValue(groups[j].key)

Without(seq, m) == SubSeq(seq, 1, m - 1) \o SubSeq(seq, m + 1, Len(seq))

\* the entries of groups with index keys, in ascending order of the index
RECURSIVE SortByIndex(_)
SmallestFirst(groups, m) == <<groups[m]>> \o SortByIndex(Without(groups, m))
SortByIndex(groups) ==
  IF groups = <<>> THEN <<>> ELSE SmallestFirst(groups, SmallestIndex(groups))

\* Object.values(groups): index keys first, ascending, then the other keys
\* in creation order
objectValues(groups) ==
  SortByIndex(SelectSeq(groups, HasIndexKey)) \o SelectSeq(groups, HasOtherKey)

\* aggregated = { ...group.keys }, then every other field of the group's
\* first row
RECURSIVE aggregate(_, _, _, _)
aggregate(first, groupColumns, i, aggregated) ==
  IF i > Len(first) THEN aggregated
  ELSE aggregate(first, groupColumns, i + 1,
                 IF \E k \in 1..Len(groupColumns) : groupColumns[k] = first[i].c
                 THEN aggregated
                 ELSE SetField(aggregated, first[i].c, first[i].v))

aggregateAll(groups, groupColumns) ==
  [g \in 1..Len(groups) |->
     aggregate(groups[g].rows[1], groupColumns, 1, groups[g].keys)]

\* result.filter(row => evaluateWhere(row, clause, tableName)): [ok, rows,
\* db], db the database the filter leaves
filtered(db, rows, flags) ==
  IF AllOk(flags)
  THEN [ok |-> TRUE, rows |-> Pick(rows, Flags(flags)), db |-> filterDatabase(db, flags)]
  ELSE [ok |-> FALSE, rows |-> <<>>, db |-> filterDatabase(db, flags)]

\* if (havingClause) return result.filter(row => evaluateWhere(...))
having(db, result, havingClause, tableName) ==
  filtered(db, result, whereFlags(db, result, havingClause, tableName))

\* result: one row per group, in the order of Object.values(groups)
groupRows(data, groupColumns) ==
  aggregateAll(objectValues(makeGroups(data, groupColumns, 1, <<>>)), groupColumns)

\* groupBy: the rows of result that pass HAVING
groupBy(db, data, groupColumns, havingClause, tableName) ==
  having(db, groupRows(data, groupColumns), havingClause, tableName)

\* the column list of SELECT *
Star == <<<<"*">>>>

\* word.toUpperCase(), for the words of the model written in lower case
UpperCase == [desc |-> "DESC", asc |-> "ASC", offset |-> "OFFSET"]

toUpperCase(word) == IF word \in DOMAIN UpperCase THEN UpperCase[word] ELSE word

\* { col, dir } of one part of the ORDER BY clause: p.trim().split(/\s+/)
orderPart(pieces) ==
  [col |-> StripQualifier(pieces[1]),
   dir |-> IF Len(pieces) >= 2 THEN toUpperCase(pieces[2][1]) ELSE "ASC"]

orderParts(parts) == [i \in 1..Len(parts) |-> orderPart(Split(Trim(parts[i]), " "))]

\* the comparator of data.sort: -1, 0 or 1
RECURSIVE compareRows(_, _, _, _)
directed(cmp, dir) == IF dir = "DESC" THEN 0 - cmp ELSE cmp
compareRows(a, b, parts, i) ==
  IF i > Len(parts) THEN 0
  ELSE IF Less(Get(a, parts[i].col), Get(b, parts[i].col)) THEN directed(-1, parts[i].dir)
  ELSE IF Less(Get(b, parts[i].col), Get(a, parts[i].col)) THEN directed(1, parts[i].dir)
  ELSE compareRows(a, b, parts, i + 1)

\* Array.prototype.sort is stable: row goes after the last row of sorted
\* that the comparator does not put after it.  (For a comparator that is
\* not a consistent order the result depends on the engine; the
\* specifications sort rows whose keys are all numbers or all texts.)
RECURSIVE placeOf(_, _, _, _)
placeOf(sorted, row, parts, k) ==
  IF k = 0 THEN 0
  ELSE IF compareRows(sorted[k], row, parts, 1) <= 0 THEN k
  ELSE placeOf(sorted, row, parts, k - 1)

insertAt(sorted, row, k) ==
  SubSeq(sorted, 1, k) \o <<row>> \o SubSeq(sorted, k + 1, Len(sorted))

RECURSIVE sortFrom(_, _, _, _)
sortFrom(data, parts, i, sorted) ==
  IF i > Len(data) THEN sorted
  ELSE sortFrom(data, parts, i + 1,
                insertAt(sorted, data[i], placeOf(sorted, data[i], parts, Len(sorted))))

\* orderBy
orderBy(data, orderByClause) ==
  sortFrom(data, orderParts(Split(orderByClause, ",")), 1, <<>>)

orderIf(data, orderByClause) ==
  IF orderByClause # <<>> THEN orderBy(data, orderByClause) ELSE data

\* the length of the run of digits of s that starts at i
RECURSIVE DigitRun(_, _)
DigitRun(s, i) == IF i <= Len(s) /\ IsDigit(s[i]) THEN 1 + DigitRun(s, i + 1) ELSE 0

\* parseInt(text) of a trimmed text: the number its leading digits spell
parseInt(text) ==
  IF DigitRun(text, 1) = 0 THEN NaN
  ELSE Number(DigitsValue(SubSeq(text, 1, DigitRun(text, 1))))

\* an index given to slice: NaN is 0, and the index is cut to 0..len
sliceIndex(k, len) ==
  IF k.nan THEN 0 ELSE IF k.n < 0 THEN 0 ELSE IF k.n > len THEN len ELSE k.n

\* x + y of two numbers
Plus(x, y) == IF x.nan \/ y.nan THEN NaN ELSE Number(x.n + y.n)

\* data.slice(offset, offset + count)
slice(data, offset, count) ==
  SubSeq(data, sliceIndex(offset, Len(data)) + 1,
         sliceIndex(Plus(offset, count), Len(data)))

\* the place of the first digit of s, 0 if it has none
FirstDigit(s) ==
  IF \E i \in 1..Len(s) : IsDigit(s[i])
  THEN CHOOSE i \in 1..Len(s) : IsDigit(s[i]) /\ \A j \in 1..(i - 1) : ~IsDigit(s[j])
  ELSE 0

\* whether \s+OFFSET\s+(\d+) matches at place i of s
OffsetAt(s, i) ==
  /\ i + 3 <= Len(s)
  /\ s[i] = " "
  /\ toUpperCase(s[i + 1]) = "OFFSET"
  /\ s[i + 2] = " "
  /\ IsDigit(s[i + 3])

\* /(\d+)(?:\s+OFFSET\s+(\d+))?/i matched at the first digit f of the
\* clause: count, and offset when OFFSET follows the count
limitCountOffset(data, s, f, after) ==
  slice(data,
        IF OffsetAt(s, after) THEN parseInt(SubSeq(s, after + 3, Len(s))) ELSE Number(0),
        parseInt(SubSeq(s, f, Len(s))))

\* the legacy form read count first
limitCountFirst(data, parts) ==
  slice(data, parseInt(Trim(parts[2])), parseInt(Trim(parts[1])))

\* const [offset, count] = parts of the legacy form "offset, count"
limitOffsetCount(data, parts) ==
  slice(data, parseInt(Trim(parts[1])), parseInt(Trim(parts[2])))

\* applyLimit; parts is limitClause.split(',')
limitParts(data, limitClause, parts) ==
  IF Len(parts) = 2 THEN limitOffsetCount(data, parts)
  ELSE IF FirstDigit(limitClause) = 0 THEN data
  ELSE limitCountOffset(data, limitClause, FirstDigit(limitClause),
                        FirstDigit(limitClause)
                        + DigitRun(limitClause, FirstDigit(limitClause)))

applyLimit(data, limitClause) == limitParts(data, limitClause, Split(limitClause, ","))

limitIf(data, limitClause) ==
  IF limitClause # <<>> THEN applyLimit(data, limitClause) ELSE data

\* the key applyDistinct gives a row: JSON.stringify(row) for *, else the
\* values of the listed columns joined by '|'
distinctKey(row, columns) ==
  IF columns = Star THEN JsonRow(row)
  ELSE Join([i \in 1..Len(columns) |-> JoinText(Get(row, Trim(columns[i])))], <<"|">>)

\* data.filter(row => !seen.has(key)): the first row of each key
firstOfKey(data, keys) ==
  Pick(data, [i \in 1..Len(data) |-> \A j \in 1..(i - 1) : keys[j] # keys[i]])

\* applyDistinct
applyDistinct(data, columns) ==
  firstOfKey(data, [i \in 1..Len(data) |-> distinctKey(data[i], columns)])

distinctIf(data, distinct, columns) ==
  IF distinct THEN applyDistinct(data, columns) ELSE data

\* the projection: selected[col] = evaluateExpression(col, row) per column
RECURSIVE project(_, _, _, _)
project(row, selectedColumns, i, selected) ==
  IF i > Len(selectedColumns) THEN selected
  ELSE project(row, selectedColumns, i + 1,
               SetField(selected, Trim(selectedColumns[i]),
                        evaluateExpression(selectedColumns[i], row)))

projectAll(rows, columns) ==
  IF columns = Star THEN rows
  ELSE [i \in 1..Len(rows) |-> project(rows[i], columns, 1, <<>>)]

\* the schema entry made for a derived table: a TEXT column per key of the
\* first row
derivedSchema(subqueryResult) ==
  [columns |-> IF subqueryResult = <<>> THEN <<>>
               ELSE [i \in 1..Len(subqueryResult[1]) |->
                       [name |-> subqueryResult[1][i].c, type |-> <<"TEXT">>]],
   primaryKey |-> <<>>]

\* the same with DISTINCT applied before LIMIT
selectDistinctFirst(db, q, data) ==
  Returned(db,
           projectAll(limitIf(distinctIf(orderIf(data, q.orderBy), q.distinct, q.columns),
                              q.limit),
                      q.columns),
           0)

\* the pipeline of select on the rows that passed WHERE and GROUP BY:
\* ORDER BY, LIMIT, DISTINCT, then the projection
selectOrdered(db, q, data) ==
  Returned(db,
           projectAll(distinctIf(limitIf(orderIf(data, q.orderBy), q.limit),
                                 q.distinct, q.columns),
                      q.columns),
           0)

selectGrouped(q, grouped) ==
  IF ~grouped.ok THEN Thrown(grouped.db) ELSE selectOrdered(grouped.db, q, grouped.rows)

selectFiltered(q, rows) ==
  IF ~rows.ok THEN Thrown(rows.db)
  ELSE IF q.groupBy # <<>>
  THEN selectGrouped(q, groupBy(rows.db, rows.rows, q.groupBy, q.having, q.from))
  ELSE selectOrdered(rows.db, q, rows.rows)

selectFrom(db, q, data) ==
  selectFiltered(q, filtered(db, data, whereFlags(db, data, q.where, q.from)))

\* the derived table registered under its alias: the subquery's rows are
\* stored, and a schema entry is made unless the alias names a table
registered(q, sub) ==
  Database(IF q.from \in DOMAIN sub.tables THEN sub.tables
           ELSE WithTable(sub.tables, q.from, derivedSchema(sub.rows)),
           saveTableData(sub.store, q.from, sub.rows))

\* after the outer query: on an error the catch block only rethrows;
\* otherwise the alias is cleared, and restored if it named a table
finishDerived(q, sub, result) ==
  IF ~result.ok THEN Thrown(Database(result.tables, result.store))
  ELSE IF q.from \notin DOMAIN sub.tables
  THEN Returned(Database(WithoutTable(result.tables, q.from),
                         removeItem(result.store, q.from)),
                result.rows, 0)
  ELSE Returned(Database(WithTable(result.tables, q.from, sub.tables[q.from]),
                         saveTableData(removeItem(result.store, q.from), q.from,
                                       getTableData(sub.store, q.from))),
                result.rows, 0)

\* select, for a query over one table (no UNION, no JOIN)
selectDerived(q, sub) ==
  IF ~sub.ok THEN Thrown(Database(sub.tables, sub.store))
  ELSE finishDerived(q, sub, select(registered(q, sub), [q EXCEPT !.sub = <<>>]))
select(db, q) ==
  IF q.sub # <<>> THEN selectDerived(q, select(db, q.sub[1]))
  ELSE IF ~q.wellFormed THEN Thrown(db)
  ELSE IF q.from \notin DOMAIN db.tables THEN Thrown(db)
  ELSE selectFrom(db, q, getTableData(db.store, q.from))

\* selectWithUnion: u is [all, parts], all telling whether the parts are
\* joined by UNION ALL and parts being query.split(unionRegex)
united(db, isUnionAll, results) ==
  Returned(db, IF isUnionAll THEN results ELSE applyDistinct(results, Star), 0)

RECURSIVE unionFrom(_, _, _, _)
unionNext(u, i, results, r) ==
  IF ~r.ok THEN Thrown(Database(r.tables, r.store))
  ELSE unionFrom(Database(r.tables, r.store), u, i + 1, results \o r.rows)
unionFrom(db, u, i, results) ==
  IF i > Len(u.parts) THEN united(db, u.all, results)
  ELSE unionNext(u, i, results, select(db, u.parts[i]))

selectWithUnion(db, u) ==
  IF Len(u.parts) < 2 THEN Thrown(db) ELSE unionFrom(db, u, 1, <<>>)

-----------------------------------------------------------------------------
(* UPDATE and DELETE *)

\* setClause.split(',').forEach(part => { [col, val] = part.split('=')...;
\* updates[col] = parseValue(val) }): the result is [ok, updates]; a part
\* without '=' leaves val undefined and parseValue throws on it
RECURSIVE parseSet(_, _, _)
parseAssignment(parts, i, updates, pieces) ==
  IF Len(pieces) < 2 THEN [ok |-> FALSE, updates |-> updates]
  ELSE parseSet(parts, i + 1,
                SetField(updates, Trim(pieces[1]), parseValue(pieces[2])))
parseSet(parts, i, updates) ==
  IF i > Len(parts) THEN [ok |-> TRUE, updates |-> updates]
  ELSE parseAssignment(parts, i, updates, Split(parts[i], "="))

\* Object.assign(row, updates)
RECURSIVE assign(_, _, _)
assign(row, updates, i) ==
  IF i > Len(updates) THEN row
  ELSE assign(SetField(row, updates[i].c, updates[i].v), updates, i + 1)

\* the rows after data.map(...), and the reply
updateRows(db, tableName, parsed, data, flags) ==
  IF ~parsed.ok \/ ~AllOk(flags) THEN Thrown(db)
  ELSE Returned(Database(db.tables,
                         saveTableData(db.store, tableName,
                           [i \in 1..Len(data) |->
                              IF flags[i].b THEN assign(data[i], parsed.updates, 1)
                              ELSE data[i]])),
                <<>>, Len(Pick(data, Flags(flags))))

\* data.map(...) in the database the evaluation of WHERE leaves
updateWhere(db, tableName, parsed, data, flags) ==
  updateRows(filterDatabase(db, flags), tableName, parsed, data, flags)

\* update: setClause and whereClause are the texts after SET and after WHERE
\* (<<>> when there is no WHERE)
update(db, tableName, setClause, whereClause) ==
  IF tableName \notin DOMAIN db.tables THEN Thrown(db)
  ELSE IF ~parseSet(Split(setClause, ","), 1, <<>>).ok THEN Thrown(db)
  ELSE updateWhere(db, tableName, parseSet(Split(setClause, ","), 1, <<>>),
                   getTableData(db.store, tableName),
                   whereFlags(db, getTableData(db.store, tableName), whereClause,
                              tableName))

\* the reply of delete: deletedCount = initialCount - data.length
deleted(db, tableName, initialCount, data) ==
  Returned(Database(db.tables, saveTableData(db.store, tableName, data)),
           <<>>, initialCount - Len(data))

\* deleteRows with the filter not negated: it keeps the rows for which the
\* clause holds (C3 tells it from deleteRows)
deleteRowsKeepingMatches(db, tableName, whereClause, data, flags) ==
  IF ~AllOk(flags) THEN Thrown(db)
  ELSE deleted(db, tableName, Len(data),
               IF whereClause # <<>> THEN Pick(data, Flags(flags)) ELSE <<>>)

\* data.filter(row => !evaluateWhere(...)), or [] without WHERE, then the reply
deleteRows(db, tableName, whereClause, data, flags) ==
  IF ~AllOk(flags) THEN Thrown(db)
  ELSE deleted(db, tableName, Len(data),
               IF whereClause # <<>> THEN Pick(data, NotFlags(flags)) ELSE <<>>)

\* data.filter(...) in the database the evaluation of WHERE leaves
deleteWhere(db, tableName, whereClause, data, flags) ==
  deleteRows(filterDatabase(db, flags), tableName, whereClause, data, flags)

\* delete
delete(db, tableName, whereClause) ==
  IF tableName \notin DOMAIN db.tables THEN Thrown(db)
  ELSE deleteWhere(db, tableName, whereClause, getTableData(db.store, tableName),
                   whereFlags(db, getTableData(db.store, tableName), whereClause,
                              tableName))

-----------------------------------------------------------------------------
(* JOIN *)

\* `${tableName}.${key}`
Qualified(tableName, key) == <<tableName, ".">> \o key

\* Object.keys(row).forEach(key => merged[`${tableName}.${key}`] = row[key])
RECURSIVE mergeInto(_, _, _, _)
mergeInto(merged, row, tableName, i) ==
  IF i > Len(row) THEN merged
  ELSE mergeInto(SetField(merged, Qualified(tableName, row[i].c), row[i].v),
                 row, tableName, i + 1)

mergeRows(row1, row2, table1Name, table2Name) ==
  mergeInto(mergeInto(<<>>, row1, table1Name, 1), row2, table2Name, 1)

\* the row with null under every key of the first row of data, {} if none
nullRow(data) ==
  IF data = <<>> THEN <<>>
  ELSE [i \in 1..Len(data[1]) |-> [c |-> data[1][i].c, v |-> Null]]

RECURSIVE Concat(_)
Concat(seqs) == IF seqs = <<>> THEN <<>> ELSE Head(seqs) \o Concat(Tail(seqs))

\* the rows of data2 with row1[key1] == row2[key2], and the rows of data1
matching2(row1, data2, key1, key2) ==
  Pick(data2, [j \in 1..Len(data2) |-> LooseEq(Get(row1, key1), Get(data2[j], key2))])

matching1(row2, data1, key1, key2) ==
  Pick(data1, [i \in 1..Len(data1) |-> LooseEq(Get(data1[i], key1), Get(row2, key2))])

mergedWith2(row1, rows2, table1, table2) ==
  [j \in 1..Len(rows2) |-> mergeRows(row1, rows2[j], table1, table2)]

mergedWith1(rows1, row2, table1, table2) ==
  [i \in 1..Len(rows1) |-> mergeRows(rows1[i], row2, table1, table2)]

\* the body of the outer loop of LEFT JOIN for row1, matched the rows of
\* data2 that row1 matches
leftFor(row1, matched, data2, table1, table2) ==
  IF matched = <<>> THEN <<mergeRows(row1, nullRow(data2), table1, table2)>>
  ELSE mergedWith2(row1, matched, table1, table2)

\* the body of the outer loop of RIGHT JOIN for row2
rightFor(row2, matched, data1, table1, table2) ==
  IF matched = <<>> THEN <<mergeRows(nullRow(data1), row2, table1, table2)>>
  ELSE mergedWith1(matched, row2, table1, table2)

crossJoin(data1, data2, table1Name, table2Name) ==
  Concat([i \in 1..Len(data1) |-> mergedWith2(data1[i], data2, table1Name, table2Name)])

\* the loops of performJoin over data1Actual and data2Actual
joinOn(data1, data2, key1, key2, table1, table2, joinType) ==
  CASE joinType \in {"INNER JOIN", "JOIN"} ->
         Concat([i \in 1..Len(data1) |->
                   mergedWith2(data1[i], matching2(data1[i], data2, key1, key2),
                               table1, table2)])
    [] joinType = "LEFT JOIN" ->
         Concat([i \in 1..Len(data1) |->
                   leftFor(data1[i], matching2(data1[i], data2, key1, key2),
                           data2, table1, table2)])
    [] joinType = "RIGHT JOIN" ->
         Concat([j \in 1..Len(data2) |->
                   rightFor(data2[j], matching1(data2[j], data1, key1, key2),
                            data1, table1, table2)])
    [] OTHER -> <<>>

\* const [, t1, col1, t2, col2] = onMatch, and what performJoin makes of it:
\* whether t1, and whether t2, names the table after FROM
namesFirst(t, table1Name) == toLowerCase(t) = toLowerCase(table1Name)

\* table1, table2, key1, key2, data1Actual, data2Actual
joinSides(data1, data2, table1Name, table2Name, on, first, second, joinType) ==
  joinOn(IF first THEN data1 ELSE IF table2Name = table1Name THEN data1 ELSE data2,
         IF second THEN data1 ELSE IF table2Name = table1Name THEN data1 ELSE data2,
         IF first THEN on.col1 ELSE on.col2,
         IF second THEN on.col2 ELSE on.col1,
         IF first THEN table1Name ELSE table2Name,
         IF second THEN table1Name ELSE table2Name,
         joinType)

\* performJoin: [ok, rows]
performJoin(data1, data2, table1Name, table2Name, onClause, joinType) ==
  IF joinType = "CROSS JOIN"
  THEN [ok |-> TRUE, rows |-> crossJoin(data1, data2, table1Name, table2Name)]
  ELSE IF ~onClause[1].matches THEN [ok |-> FALSE, rows |-> <<>>]
  ELSE [ok |-> TRUE,
        rows |-> joinSides(data1, data2, table1Name, table2Name, onClause[1],
                           namesFirst(onClause[1].t1, table1Name),
                           namesFirst(onClause[1].t2, table1Name), joinType)]

\* A SELECT with JOIN is the record of what the regular expressions of
\* selectWithJoin capture: columns (Star for *), table1 and table2, the
\* join type in upper case, on (<<>> when absent, else <<[t1, col1, t2,
\* col2, matches]>>, matches FALSE when the clause is not t.c = t.c), the
\* WHERE text, and wellFormed FALSE when the text does not match
JoinQuery(columns, table1, joinType, table2, on, where) ==
  [columns |-> columns, table1 |-> table1, joinType |-> joinType,
   table2 |-> table2, on |-> on, where |-> where, wellFormed |-> TRUE]

On(t1, col1, t2, col2) ==
  <<[t1 |-> t1, col1 |-> col1, t2 |-> t2, col2 |-> col2, matches |-> TRUE]>>

\* selected[col] = row[col] for each column of the list
RECURSIVE selectColumns(_, _, _, _)
selectColumns(row, selectedColumns, i, selected) ==
  IF i > Len(selectedColumns) THEN selected
  ELSE selectColumns(row, selectedColumns, i + 1,
                     SetField(selected, Trim(selectedColumns[i]),
                              Get(row, Trim(selectedColumns[i]))))

joinProjected(q, rows) ==
  IF ~rows.ok THEN Thrown(rows.db)
  ELSE Returned(rows.db,
                IF q.columns = Star THEN rows.rows
                ELSE [i \in 1..Len(rows.rows) |->
                        selectColumns(rows.rows[i], q.columns, 1, <<>>)],
                0)

joinFiltered(db, q, joinedData) ==
  IF ~joinedData.ok THEN Thrown(db)
  ELSE joinProjected(q, filtered(db, joinedData.rows,
                                 whereFlags(db, joinedData.rows, q.where, NoTable)))

selectWithJoin(db, q) ==
  IF ~q.wellFormed THEN Thrown(db)
  ELSE IF q.on = <<>> /\ q.joinType # "CROSS JOIN" THEN Thrown(db)
  ELSE IF q.table1 \notin DOMAIN db.tables THEN Thrown(db)
  ELSE IF q.table2 \notin DOMAIN db.tables THEN Thrown(db)
  ELSE joinFiltered(db, q,
                    performJoin(getTableData(db.store, q.table1),
                                getTableData(db.store, q.table2),
                                q.table1, q.table2, q.on, q.joinType))

\* where (\w+)\.(\w+) stands at position i of the text
QualifiedAt(s, i) ==
  i >= 1 /\ i + 2 <= Len(s) /\ IsWord(s[i]) /\ s[i + 1] = "." /\ IsWord(s[i + 2])

\* where /(\w+)\.(\w+)\s*=\s*(\w+)\.(\w+)/ matches at position i of the text
OnAt(s, i) ==
  /\ QualifiedAt(s, i)
  /\ AfterBlank(s, i + 3) <= Len(s)
  /\ s[AfterBlank(s, i + 3)] = "="
  /\ QualifiedAt(s, AfterBlank(s, AfterBlank(s, i + 3) + 1))

OnPlace(s) == CHOOSE i \in 1..Len(s) : OnAt(s, i) /\ \A j \in 1..(i - 1) : ~OnAt(s, j)

onCaptures(s, i, j) == On(s[i], <<s[i + 2]>>, s[j], <<s[j + 2]>>)

\* onClause.match(/(\w+)\.(\w+)\s*=\s*(\w+)\.(\w+)/): the first place of
\* the ON text where the pattern stands, whatever follows it
onMatch(onClause) ==
  IF \E i \in 1..Len(onClause) : OnAt(onClause, i)
  THEN onCaptures(onClause, OnPlace(onClause),
                  AfterBlank(onClause, AfterBlank(onClause, OnPlace(onClause) + 3) + 1))
  ELSE <<[t1 |-> "", col1 |-> <<>>, t2 |-> "", col2 |-> <<>>, matches |-> FALSE]>>

\* the join types written in two words
JoinWords == [INNER |-> "INNER JOIN", LEFT |-> "LEFT JOIN", RIGHT |-> "RIGHT JOIN",
              CROSS |-> "CROSS JOIN"]

\* the place after (\w+)\s+(INNER\s+JOIN|LEFT\s+JOIN|RIGHT\s+JOIN|CROSS\s+JOIN|JOIN)
\* at the head of the text that follows FROM, 0 when it does not stand there
joinTypeEnd(s) ==
  IF Len(s) >= 3 /\ IsWord(s[1]) /\ s[2] = " " /\ s[3] = "JOIN" THEN 4
  ELSE IF /\ Len(s) >= 5 /\ IsWord(s[1]) /\ s[2] = " " /\ s[3] \in DOMAIN JoinWords
          /\ s[4] = " " /\ s[5] = "JOIN"
  THEN 6
  ELSE 0

\* the least place at or after i where \s+word\s+ stands with text after
\* it, 0 if there is none
RECURSIVE clausePlace(_, _, _)
clausePlace(s, word, i) ==
  IF i + 3 > Len(s) THEN 0
  ELSE IF s[i] = " " /\ s[i + 1] = word /\ s[i + 2] = " " THEN i
  ELSE clausePlace(s, word, i + 1)

NoJoinMatch ==
  [JoinQuery(<<>>, "", "", "", <<>>, <<>>) EXCEPT !.wellFormed = FALSE]

\* (?:\s+ON\s+(.+?))?(?:\s+WHERE\s+(.+?))?$ on the text r that follows the
\* second table: the ON text runs to the first WHERE, or to the end of the
\* statement (the statements of the model have no ORDER BY or LIMIT), w
\* being the place of that WHERE
onAndWhere(columns, table1, joinType, table2, r, w) ==
  IF w = 0
  THEN JoinQuery(columns, table1, joinType, table2, onMatch(SubSeq(r, 4, Len(r))), <<>>)
  ELSE JoinQuery(columns, table1, joinType, table2, onMatch(SubSeq(r, 4, w - 1)),
                 SubSeq(r, w + 3, Len(r)))

joinClauses(columns, table1, joinType, table2, r) ==
  IF r = <<>> THEN JoinQuery(columns, table1, joinType, table2, <<>>, <<>>)
  ELSE IF clausePlace(r, "ON", 1) = 1
  THEN onAndWhere(columns, table1, joinType, table2, r, clausePlace(r, "WHERE", 5))
  ELSE IF clausePlace(r, "WHERE", 1) = 1
  THEN JoinQuery(columns, table1, joinType, table2, <<>>, SubSeq(r, 4, Len(r)))
  ELSE NoJoinMatch

tablesAndClauses(columns, s, e) ==
  IF e = 0 \/ e + 1 > Len(s) \/ s[e] # " " \/ ~IsWord(s[e + 1]) THEN NoJoinMatch
  ELSE joinClauses(columns, s[1], IF e = 4 THEN "JOIN" ELSE JoinWords[s[3]],
                   s[e + 1], SubSeq(s, e + 2, Len(s)))

\* query.match(/FROM\s+(\w+)\s+(...JOIN)\s+(\w+)(?:\s+ON\s+(.+?))?...$/i) on
\* a statement SELECT columns FROM from: the captures as a JoinQuery, the
\* ON text as performJoin matches it
fromJoinMatch(columns, from) == tablesAndClauses(columns, from, joinTypeEnd(from))

-----------------------------------------------------------------------------
(* The text of a SELECT.  select() tests the whole text for UNION and for   *)
(* JOIN before it reads any clause.  The texts of the model hold no GROUP   *)
(* BY, HAVING, ORDER BY or LIMIT, and the parts of a UNION hold no JOIN.    *)

\* /\s+word\s+/i.test(text)
hasKeyword(s, word) ==
  \E i \in 1..(Len(s) - 2) : s[i] = " " /\ s[i + 1] = word /\ s[i + 2] = " "

\* /\s+UNION\s+ALL\s+/i.test(query)
isUnionAll(s) ==
  \E i \in 1..(Len(s) - 4) :
    s[i] = " " /\ s[i + 1] = "UNION" /\ s[i + 2] = " " /\ s[i + 3] = "ALL" /\ s[i + 4] = " "

\* where unionRegex matches at place i
unionAt(s, i, all) ==
  /\ i + 2 <= Len(s) /\ s[i] = " " /\ s[i + 1] = "UNION" /\ s[i + 2] = " "
  /\ all => (i + 4 <= Len(s) /\ s[i + 3] = "ALL" /\ s[i + 4] = " ")

\* query.split(unionRegex)
RECURSIVE splitUnion(_, _, _, _)
splitUnion(s, all, start, i) ==
  IF i > Len(s) THEN <<SubSeq(s, start, Len(s))>>
  ELSE IF unionAt(s, i, all)
  THEN <<SubSeq(s, start, i - 1)>>
       \o splitUnion(s, all, i + (IF all THEN 5 ELSE 3), i + (IF all THEN 5 ELSE 3))
  ELSE splitUnion(s, all, start, i + 1)

\* columns.trim() !== '*' ? columns.split(',') : all the columns
columnList(text) == IF Trim(text) = <<"*">> THEN Star ELSE Split(text, ",")

\* where selectRegex can match \s+FROM\s+(\w+) and the rest of the text:
\* after the table comes the end, or WHERE and a clause
fromAt(s, f) ==
  /\ f >= 4 /\ f + 3 <= Len(s)
  /\ s[f] = " " /\ s[f + 1] = "FROM" /\ s[f + 2] = " " /\ IsWord(s[f + 3])
  /\ (f + 3 = Len(s) \/ clausePlace(SubSeq(s, f + 4, Len(s)), "WHERE", 1) = 1)

\* the captures of selectRegex with FROM at place f, the columns from place c
selectCaptures(s, c, f) ==
  [Query(columnList(SubSeq(s, c, f - 1)), s[f + 3], SubSeq(s, f + 7, Len(s)))
     EXCEPT !.distinct = (c = 5)]

NoSelectMatch == [Query(<<>>, NoTable, <<>>) EXCEPT !.wellFormed = FALSE]

\* query.match(selectRegex): the column list is lazy, so FROM is the first
\* one after which the rest of the pattern matches
selectMatch(s) ==
  IF Len(s) < 2 \/ s[1] # "SELECT" \/ s[2] # " " \/ ~\E f \in 1..Len(s) : fromAt(s, f)
  THEN NoSelectMatch
  ELSE selectCaptures(s, IF Len(s) >= 4 /\ s[3] = "DISTINCT" /\ s[4] = " " THEN 5 ELSE 3,
                      CHOOSE f \in 1..Len(s) :
                        fromAt(s, f) /\ \A g \in 1..(f - 1) : ~fromAt(s, g))

\* where \s*\)\s+AS\s+(\w+) of derivedTableRegex matches at place j
closesDerived(s, j) ==
  /\ j + 4 <= Len(s)
  /\ s[j] = ")" /\ s[j + 1] = " " /\ s[j + 2] = "AS" /\ s[j + 3] = " " /\ IsWord(s[j + 4])

\* where derivedTableRegex matches with FROM at place i
derivedAt(s, i) ==
  /\ i + 5 <= Len(s)
  /\ s[i] = "FROM" /\ s[i + 1] = " " /\ s[i + 2] = "(" /\ s[i + 3] = "SELECT" /\ s[i + 4] = " "
  /\ \E j \in (i + 6)..Len(s) : closesDerived(s, j)

\* the text as select reads it: a derived table is a query over its alias
\* (modifiedQuery) with the subquery in sub
RECURSIVE selectParsed(_)
derivedParsed(s, i, j) ==
  [selectMatch(SubSeq(s, 1, i - 1) \o <<"FROM", " ", s[j + 4]>> \o SubSeq(s, j + 5, Len(s)))
     EXCEPT !.sub = <<selectParsed(Trim(SubSeq(s, i + 3, j - 1)))>>, !.from = s[j + 4]]

derivedFrom(s, i) ==
  derivedParsed(s, i, CHOOSE j \in (i + 6)..Len(s) :
                        closesDerived(s, j) /\ \A k \in (i + 6)..(j - 1) : ~closesDerived(s, k))

selectParsed(s) ==
  IF \E i \in 1..Len(s) : derivedAt(s, i)
  THEN derivedFrom(s, CHOOSE i \in 1..Len(s) : derivedAt(s, i) /\ \A k \in 1..(i - 1) : ~derivedAt(s, k))
  ELSE selectMatch(s)

\* the statements selectWithUnion runs: selectQueries, each trimmed
unionParts(parts) == [k \in 1..Len(parts) |-> selectParsed(Trim(parts[k]))]

\* /SELECT\s+(.*?)\s+FROM/ and fromJoinMatch on a text with FROM at place f
joinParsed(s, f) ==
  IF f = 0 THEN NoJoinMatch
  ELSE fromJoinMatch(columnList(SubSeq(s, 3, f - 1)), SubSeq(s, f + 3, Len(s)))

\* select(query) on the text of the statement
selectText(db, text) ==
  IF hasKeyword(text, "UNION")
  THEN selectWithUnion(db, [all |-> isUnionAll(text),
                            parts |-> unionParts(splitUnion(text, isUnionAll(text), 1, 1))])
  ELSE IF hasKeyword(text, "JOIN") THEN selectWithJoin(db, joinParsed(text, clausePlace(text, "FROM", 1)))
  ELSE select(db, selectParsed(text))

-----------------------------------------------------------------------------
(* The statements a caller writes *)

\* A literal of a statement: a number, or a text between single quotes
NumLit(n) == [kind |-> "num", n |-> n, s |-> <<>>]
TextLit(s) == [kind |-> "text", n |-> 0, s |-> s]

\* how the literal is written in the statement
Spell(lit) == IF lit.kind = "num" THEN Decimal(lit.n) ELSE <<"'">> \o lit.s \o <<"'">>

\* the value the literal denotes
LitValue(lit) == IF lit.kind = "num" THEN Num(lit.n) ELSE Str(lit.s)

\* "v1, v2, ..." between the parentheses after VALUES
ValuesText(lits) == Join([i \in 1..Len(lits) |-> Spell(lits[i])], <<",", " ">>)

\* "c1 = v1, c2 = v2, ..." after SET; an assignment is [col, lit]
SetText(assignments) ==
  Join([i \in 1..Len(assignments) |->
          assignments[i].col \o <<" ", "=", " ">> \o Spell(assignments[i].lit)],
       <<",", " ">>)

-----------------------------------------------------------------------------
(* execute(): one action per statement kind *)

DB == Database(tables, store)

\* what execute() leaves: the database, and the record of the statement
Executed(op, stmt, r) ==
  /\ tables' = r.tables
  /\ store' = r.store
  /\ last' = [op |-> op, stmt |-> stmt, ok |-> r.ok, rows |-> r.rows,
              count |-> r.count, before |-> store, tablesBefore |-> tables]

ExecCreateTable(tableName, columnDefs) ==
  Executed("create", [table |-> tableName, columns |-> columnDefs],
           createTable(DB, tableName, columnDefs))

ExecInsert(tableName, columns, lits) ==
  Executed("insert", [table |-> tableName, columns |-> columns, lits |-> lits],
           insert(DB, tableName, columns, ValuesText(lits)))

\* the table holds fewer than max rows
Room(tableName, max) == Len(getTableData(store, tableName)) < max

ExecSelect(q) == Executed("select", q, select(DB, q))

ExecSelectJoin(q) == Executed("join", q, selectWithJoin(DB, q))

ExecSelectUnion(u) == Executed("union", u, selectWithUnion(DB, u))

\* SELECT given as the text of the statement
ExecSelectText(text) == Executed("select", [text |-> text], selectText(DB, text))

\* SELECT columns FROM from, the text after FROM holding a JOIN
ExecSelectFromJoin(columns, from) ==
  Executed("join", [columns |-> columns, from |-> from],
           selectWithJoin(DB, fromJoinMatch(columns, from)))

ExecUpdate(tableName, assignments, whereClause) ==
  Executed("update",
           [table |-> tableName, set |-> assignments, where |-> whereClause],
           update(DB, tableName, SetText(assignments), whereClause))

ExecDelete(tableName, whereClause) ==
  Executed("delete", [table |-> tableName, where |-> whereClause],
           delete(DB, tableName, whereClause))

\* a new LocalDB over an empty localStorage
Init ==
  /\ tables = EmptyMap
  /\ store = EmptyMap
  /\ last = [op |-> "none", stmt |-> <<>>, ok |-> TRUE, rows |-> <<>>, count |-> 0,
             before |-> EmptyMap, tablesBefore |-> EmptyMap]

-----------------------------------------------------------------------------
(* Spec: one table t(a, b) under INSERT, SELECT *, UPDATE and DELETE *)

ColA == <<"a">>
ColB == <<"b">>

TDefs == <<[name |-> ColA, type |-> <<"INTEGER", " ", "PRIMARY", " ", "KEY">>],
           [name |-> ColB, type |-> <<"TEXT">>]>>

Lits == {NumLit(1), NumLit(2), TextLit(<<"x", ",", "y">>), TextLit(<<"x", ")">>)}

LitLists == {<<l>> : l \in Lits} \cup {<<l, m>> : l \in Lits, m \in {NumLit(1), TextLit(<<"x", ")">>)}}

ColumnLists == {<<ColA>>, <<ColA, ColB>>}

Cmp(col, op, lit) == col \o <<" ", op, " ">> \o Spell(lit)

Wheres == {<<>>, Cmp(ColA, "=", NumLit(1)), Cmp(ColA, ">", NumLit(1))}

Assignments ==
  {<<[col |-> c, lit |-> l]>> : c \in {ColA, ColB}, l \in {NumLit(2), TextLit(<<"x", ",", "y">>)}}

Next ==
  \/ ExecCreateTable("t", TDefs)
  \/ \E columns \in ColumnLists, lits \in LitLists :
       Room("t", MaxRows) /\ ExecInsert("t", columns, lits)
  \/ ExecSelect(Query(Star, "t", <<>>))
  \/ \E set \in Assignments, w \in Wheres : ExecUpdate("t", set, w)
  \/ \E w \in Wheres : ExecDelete("t", w)

Spec == Init /\ [][Next]_vars

-----------------------------------------------------------------------------
(* Claims about INSERT, UPDATE and DELETE, checked under Spec *)

\* the row an INSERT describes: the listed columns with the values the
\* listed literals denote, position by position
ListedRow(columns, lits) ==
  [i \in 1..Len(columns) |-> [c |-> columns[i], v |-> LitValue(lits[i])]]

\* the database before the last statement
Before == Database(last.tablesBefore, last.before)

\* the rows of data for which the clause holds, and the others
Holding(data, whereClause) ==
  Pick(data, [i \in 1..Len(data) |->
                whereClause = <<>> \/ evaluateWhere(Before, data[i], whereClause, "t").b])

NotHolding(data, whereClause) ==
  Pick(data, [i \in 1..Len(data) |->
                ~(whereClause = <<>> \/ evaluateWhere(Before, data[i], whereClause, "t").b)])

\* C1: an INSERT with as many values as columns, then SELECT * FROM the
\* table, returns the rows held before followed by the one row that maps
\* the listed columns to the listed literal values.
C1_InsertThenSelectAll ==
  [][(/\ last.op = "insert"
      /\ last.stmt.table \in DOMAIN last.tablesBefore
      /\ Len(last.stmt.columns) = Len(last.stmt.lits)
      /\ last'.op = "select"
      /\ last'.stmt = Query(Star, last.stmt.table, <<>>))
     => (/\ last.ok
         /\ last'.ok
         /\ last'.rows = Append(last.before[last.stmt.table],
                                ListedRow(last.stmt.columns, last.stmt.lits)))]_vars

\* INSERT INTO t (a) VALUES ('x)') has been executed: the row it appended,
\* and SELECT * returns, has a = 'x (the quote, then x)
C1_Witness ==
  /\ last.op = "insert" /\ last.ok
  /\ last.stmt = [table |-> "t", columns |-> <<ColA>>, lits |-> <<TextLit(<<"x", ")">>)>>]
  /\ select(DB, Query(Star, "t", <<>>)).rows
     = Append(last.before["t"], <<[c |-> ColA, v |-> Str(<<"'", "x">>)]>>)

\* C3: DELETE FROM t WHERE p leaves exactly the rows for which p was false,
\* in their order, and reports the number of rows for which p was true;
\* without WHERE it leaves no row and reports the previous number of rows.
C3_DeleteRemovesMatches ==
  (last.op = "delete" /\ last.stmt.table \in DOMAIN last.tablesBefore)
  => LET pre == last.before[last.stmt.table] IN
     /\ last.ok
     /\ store[last.stmt.table] = NotHolding(pre, last.stmt.where)
     /\ last.count = Len(Holding(pre, last.stmt.where))
     /\ last.stmt.where = <<>> => (store[last.stmt.table] = <<>> /\ last.count = Len(pre))

C3_Witness ==
  /\ last.op = "delete" /\ last.ok
  /\ last.stmt.where # <<>>
  /\ last.count = 1
  /\ Len(store[last.stmt.table]) = 1

\* the row after every assignment of an UPDATE has been applied to it
RECURSIVE Assigned(_, _, _)
Assigned(row, assignments, i) ==
  IF i > Len(assignments) THEN row
  ELSE Assigned(SetField(row, assignments[i].col, LitValue(assignments[i].lit)),
                assignments, i + 1)

\* C4: UPDATE t SET c1 = v1, ... WHERE p sets each assigned column of every
\* row for which p held to its literal and changes nothing else; it reports
\* the number of rows for which p held, and succeeds when there is none.
C4_UpdateAssignsMatches ==
  (last.op = "update" /\ last.stmt.table \in DOMAIN last.tablesBefore)
  => LET pre == last.before[last.stmt.table]
         post == store[last.stmt.table]
     IN /\ last.ok
        /\ Len(post) = Len(pre)
        /\ \A i \in 1..Len(pre) :
             post[i] = IF Holding(<<pre[i]>>, last.stmt.where) # <<>>
                       THEN Assigned(pre[i], last.stmt.set, 1)
                       ELSE pre[i]
        /\ last.count = Len(Holding(pre, last.stmt.where))

\* UPDATE t SET b = 'x,y' has been executed on a table with a row: it threw
C4_Witness ==
  /\ last.op = "update"
  /\ last.stmt = [table |-> "t", where |-> <<>>,
                  set |-> <<[col |-> ColB, lit |-> TextLit(<<"x", ",", "y">>)]>>]
  /\ "t" \in DOMAIN last.tablesBefore
  /\ last.before["t"] # <<>>
  /\ ~last.ok
  /\ store = last.before

\* C5: an INSERT whose column list and value list differ in length throws
\* and leaves the stored rows as they were.
C5_ArityMismatchThrows ==
  (last.op = "insert" /\ Len(last.stmt.columns) # Len(last.stmt.lits))
  => (~last.ok /\ store = last.before)

\* INSERT INTO t (a, b) VALUES (1) has been executed: it returned, and
\* appended the row a = 1
C5_Witness ==
  /\ last.op = "insert"
  /\ last.stmt = [table |-> "t", columns |-> <<ColA, ColB>>, lits |-> <<NumLit(1)>>]
  /\ "t" \in DOMAIN last.tablesBefore
  /\ last.ok
  /\ store["t"] = Append(last.before["t"], <<[c |-> ColA, v |-> Num(1)]>>)

-----------------------------------------------------------------------------
(* SpecWhere: numbers in t.a under the comparison operators and BETWEEN *)

Numbers == {NumLit(1), NumLit(2), NumLit(3)}

ComparisonOperators == {"=", "!=", "<>", ">", "<", ">=", "<="}

\* a condition on column a: a comparison with lo, or BETWEEN lo AND hi
Comparison(op, lit) == [col |-> ColA, op |-> op, lo |-> lit, hi |-> lit]
Between(lo, hi) == [col |-> ColA, op |-> "BETWEEN", lo |-> lo, hi |-> hi]

Comparisons == {Comparison(op, NumLit(2)) : op \in ComparisonOperators}
Betweens == {Between(NumLit(1), NumLit(2)), Between(NumLit(2), NumLit(3)),
             Between(NumLit(2), NumLit(2))}

\* how the condition is written after WHERE
CondText(c) ==
  IF c.op = "BETWEEN"
  THEN c.col \o <<" ", "BETWEEN", " ">> \o Spell(c.lo) \o <<" ", "AND", " ">> \o Spell(c.hi)
  ELSE Cmp(c.col, c.op, c.lo)

Conds == Comparisons \cup Betweens

NextWhere ==
  \/ ExecCreateTable("t", TDefs)
  \/ \E n \in Numbers : Room("t", MaxRows) /\ ExecInsert("t", <<ColA>>, <<n>>)
  \/ \E c \in Conds : ExecSelect(Query(Star, "t", CondText(c)))
  \/ \E c \in Conds : ExecUpdate("t", <<[col |-> ColB, lit |-> NumLit(1)]>>, CondText(c))
  \/ \E c \in Conds : ExecDelete("t", CondText(c))

SpecWhere == Init /\ [][NextWhere]_vars

\* what the condition says of a value
Satisfies(c, v) ==
  CASE c.op = "BETWEEN" -> LessEq(LitValue(c.lo), v) /\ LessEq(v, LitValue(c.hi))
    [] c.op = "=" -> LooseEq(v, LitValue(c.lo))
    [] c.op \in {"!=", "<>"} -> ~LooseEq(v, LitValue(c.lo))
    [] c.op = ">" -> Less(LitValue(c.lo), v)
    [] c.op = "<" -> Less(v, LitValue(c.lo))
    [] c.op = ">=" -> LessEq(LitValue(c.lo), v)
    [] c.op = "<=" -> LessEq(v, LitValue(c.lo))

Satisfying(data, c) == Pick(data, [i \in 1..Len(data) |-> Satisfies(c, Get(data[i], c.col))])
NotSatisfying(data, c) == Pick(data, [i \in 1..Len(data) |-> ~Satisfies(c, Get(data[i], c.col))])

\* the statement just executed on the existing table t had WHERE c:
\* SELECT returned, DELETE removed and UPDATE counted the satisfying rows
ActedOn(c) ==
  /\ last.op \in {"select", "update", "delete"}
  /\ "t" \in DOMAIN last.tablesBefore
  /\ last.stmt.where = CondText(c)

SelectsBy(c) ==
  /\ last.ok
  /\ last.op = "select" => last.rows = Satisfying(last.before["t"], c)
  /\ last.op = "delete" => /\ store["t"] = NotSatisfying(last.before["t"], c)
                           /\ last.count = Len(Satisfying(last.before["t"], c))
  /\ last.op = "update" => last.count = Len(Satisfying(last.before["t"], c))

\* C6: col BETWEEN lo AND hi in SELECT, UPDATE or DELETE holds of exactly
\* the rows with lo <= col and col <= hi, both ends included.
C6_BetweenInclusive == \A c \in Betweens : ActedOn(c) => SelectsBy(c)

\* SELECT * FROM t WHERE a BETWEEN 1 AND 2 over the one row a = 1 has
\* returned no row
C6_Witness ==
  /\ last.op = "select" /\ last.ok
  /\ last.stmt.where = CondText(Between(NumLit(1), NumLit(2)))
  /\ last.before["t"] = <<<<[c |-> ColA, v |-> Num(1)]>>>>
  /\ last.rows = <<>>

\* C7: col op literal, for op among = != <> > < >= <=, holds of exactly the
\* rows whose value compares so with the literal; != and <> hold of the
\* same rows, those of which = does not hold.
C7_ComparisonOperators == \A c \in Comparisons : ActedOn(c) => SelectsBy(c)

\* SELECT * FROM t WHERE a != 2 over the one row a = 1 has returned no row
C7_Witness ==
  /\ last.op = "select" /\ last.ok
  /\ last.stmt.where = CondText(Comparison("!=", NumLit(2)))
  /\ last.before["t"] = <<<<[c |-> ColA, v |-> Num(1)]>>>>
  /\ last.rows = <<>>

-----------------------------------------------------------------------------
(* SpecDerived: SELECT ... FROM (SELECT * FROM t) AS alias, over tables t, a *)

\* SELECT * FROM (SELECT * FROM t) AS alias [WHERE where]; with
\* wellFormed FALSE the text after the alias is not a clause select reads
Derived(alias, where, wellFormed) ==
  [Query(Star, alias, where) EXCEPT !.sub = <<Query(Star, "t", <<>>)>>,
                                    !.wellFormed = wellFormed]

Aliases == {"a", "d"}

NextDerived ==
  \/ \E tableName \in {"t", "a"} : ExecCreateTable(tableName, TDefs)
  \/ \E tableName \in {"t", "a"}, n \in {NumLit(1), NumLit(2)} :
       Room(tableName, MaxRows) /\ ExecInsert(tableName, <<ColA>>, <<n>>)
  \/ \E alias \in Aliases, w \in Wheres, wellFormed \in BOOLEAN :
       ExecSelect(Derived(alias, w, wellFormed))

SpecDerived == Init /\ [][NextDerived]_vars

\* C2: after a SELECT over a derived table (SELECT ...) AS a, returned or
\* thrown, a table that was named a before the statement has the schema
\* entry and the stored rows it had before the statement.
C2_DerivedTableRestoresAlias ==
  (/\ last.op = "select"
   /\ last.stmt.sub # <<>>
   /\ last.stmt.from \in DOMAIN last.tablesBefore)
  => (/\ last.stmt.from \in DOMAIN tables
      /\ tables[last.stmt.from] = last.tablesBefore[last.stmt.from]
      /\ store[last.stmt.from] = last.before[last.stmt.from])

\* a malformed SELECT over (SELECT * FROM t) AS a has thrown, with a an
\* empty table and t not: a now holds the rows of t
C2_Witness ==
  /\ last.op = "select" /\ ~last.ok
  /\ last.stmt = Derived("a", <<>>, FALSE)
  /\ "a" \in DOMAIN last.tablesBefore
  /\ "t" \in DOMAIN last.tablesBefore
  /\ last.before["a"] = <<>>
  /\ last.before["t"] # <<>>
  /\ store["a"] = last.before["t"]

\* the alias is restored by the statements that returned
C2_RestoredAfterReturn ==
  (last.op = "select" /\ last.ok) => C2_DerivedTableRestoresAlias

\* getTables(): Object.keys(this.tables)
getTables(tbls) == DOMAIN tbls

\* the statement was a SELECT over a derived table whose alias named no table
AliasWasFree ==
  /\ last.op = "select"
  /\ last.stmt.sub # <<>>
  /\ last.stmt.from \notin getTables(last.tablesBefore)

\* C27: SELECT is read-only: after any SELECT has returned or thrown, also
\* one over a derived table whose alias names no existing table, getTables()
\* returns the names it returned before, every table has the stored rows it
\* had, and the store holds no entry under the derived-table alias.
C27_SelectReadOnly ==
  last.op = "select" =>
    /\ getTables(tables) = getTables(last.tablesBefore)
    /\ \A tableName \in getTables(last.tablesBefore) :
         getTableData(store, tableName) = getTableData(last.before, tableName)
    /\ AliasWasFree => last.stmt.from \notin DOMAIN store

\* the statements that returned left the names, the rows and the store as
\* they were
C27_ReadOnlyWhenReturned ==
  (last.op = "select" /\ last.ok) => C27_SelectReadOnly

\* a malformed SELECT over (SELECT * FROM t) AS d has thrown, no table being
\* named d and t holding a row: d is now a table name and the store holds
\* the rows of t under d
C27_Witness ==
  /\ AliasWasFree /\ ~last.ok
  /\ last.stmt = Derived("d", <<>>, FALSE)
  /\ "t" \in getTables(last.tablesBefore)
  /\ last.before["t"] # <<>>
  /\ "d" \in getTables(tables)
  /\ "d" \in DOMAIN store /\ store["d"] = last.before["t"]

\* SELECT * FROM (SELECT * FROM t) AS d has returned the rows of t, and
\* nothing is left under d
C27_ReturnedWitness ==
  /\ AliasWasFree /\ last.ok
  /\ last.stmt = Derived("d", <<>>, TRUE)
  /\ last.rows # <<>>
  /\ "d" \notin getTables(tables) /\ "d" \notin DOMAIN store

-----------------------------------------------------------------------------
(* SpecGroup: orders(id, user_id, amount) under GROUP BY user_id *)

Id == <<"id">>
UserId == <<"user_id">>
Amount == <<"amount">>

OrdersDefs == <<[name |-> Id, type |-> <<"INTEGER", " ", "PRIMARY", " ", "KEY">>],
                [name |-> UserId, type |-> <<"INTEGER">>],
                [name |-> Amount, type |-> <<"INTEGER">>]>>

\* the amount of the order with each id
Amounts == <<100, 200, 150, 50>>

UserIds == {1, 2, 3}

\* INSERT INTO orders (id, user_id, amount) VALUES (id, u, Amounts[id]),
\* the ids given in sequence
ExecInsertOrder(u) ==
  /\ Room("orders", MaxOrders)
  /\ ExecInsert("orders", <<Id, UserId, Amount>>,
                <<NumLit(Len(getTableData(store, "orders")) + 1), NumLit(u),
                  NumLit(Amounts[Len(getTableData(store, "orders")) + 1])>>)

\* "COUNT(*) > k" after HAVING
HavingCount(k) == CountStar \o <<" ", ">", " ">> \o Decimal(k)

\* SELECT user_id, COUNT(*) FROM orders GROUP BY user_id [HAVING havingClause]
CountPerUser(havingClause) ==
  [Query(<<UserId, CountStar>>, "orders", <<>>)
     EXCEPT !.groupBy = <<UserId>>, !.having = havingClause]

Thresholds == {0, 1, 2}

NextGroup ==
  \/ ExecCreateTable("orders", OrdersDefs)
  \/ \E u \in UserIds : ExecInsertOrder(u)
  \/ ExecSelect(CountPerUser(<<>>))
  \/ \E k \in Thresholds : ExecSelect(CountPerUser(HavingCount(k)))

SpecGroup == Init /\ [][NextGroup]_vars

\* the number of rows of data with user_id u
GroupSize(data, u) == Cardinality({i \in 1..Len(data) : Get(data[i], UserId) = Num(u)})

\* the output row of u's group
CountRow(data, u) ==
  <<[c |-> UserId, v |-> Num(u)], [c |-> CountStar, v |-> Num(GroupSize(data, u))]>>

\* one output row for each group of data that has more than k rows
CountRows(data, k) == {CountRow(data, u) : u \in {w \in UserIds : GroupSize(data, w) > k}}

Returns(rowSet) ==
  /\ last.ok
  /\ {last.rows[i] : i \in 1..Len(last.rows)} = rowSet
  /\ Len(last.rows) = Cardinality(rowSet)

Order(id, u) ==
  <<[c |-> Id, v |-> Num(id)], [c |-> UserId, v |-> Num(u)],
    [c |-> Amount, v |-> Num(Amounts[id])]>>

\* C8: in a GROUP BY query COUNT(*) of an output row is the number of rows
\* of its group, and HAVING COUNT(*) > k keeps the groups of more than k
\* rows; over orders (1,1,100),(2,1,200),(3,2,150) the query with
\* HAVING COUNT(*) > 1 returns the one row user_id 1, COUNT(*) 2.
C8_CountPerGroup ==
  (last.op = "select" /\ "orders" \in DOMAIN last.tablesBefore)
  => /\ last.stmt = CountPerUser(<<>>) => Returns(CountRows(last.before["orders"], 0))
     /\ \A k \in Thresholds :
          last.stmt = CountPerUser(HavingCount(k))
          => Returns(CountRows(last.before["orders"], k))
     /\ (/\ last.stmt = CountPerUser(HavingCount(1))
         /\ last.before["orders"] = <<Order(1, 1), Order(2, 1), Order(3, 2)>>)
        => last.rows = <<<<[c |-> UserId, v |-> Num(1)], [c |-> CountStar, v |-> Num(2)]>>>>

\* the query with HAVING COUNT(*) > 1 over orders (1,1,100), (2,1,200),
\* (3,2,150) has returned no row
C8_Witness ==
  /\ last.op = "select" /\ last.ok
  /\ last.stmt = CountPerUser(HavingCount(1))
  /\ last.before["orders"] = <<Order(1, 1), Order(2, 1), Order(3, 2)>>
  /\ last.rows = <<>>

\* the user_id values of rows i.. of data that are not in seen, each once,
\* in the order in which they first occur
RECURSIVE FirstSeenFrom(_, _, _)
FirstSeenFrom(data, i, seen) ==
  IF i > Len(data) THEN <<>>
  ELSE IF Get(data[i], UserId) \in seen THEN FirstSeenFrom(data, i + 1, seen)
  ELSE <<Get(data[i], UserId)>>
       \o FirstSeenFrom(data, i + 1, seen \cup {Get(data[i], UserId)})

GroupedByUser ==
  /\ last.op = "select"
  /\ "orders" \in DOMAIN last.tablesBefore
  /\ last.stmt = CountPerUser(<<>>)

UserIdsOf(rows) == [i \in 1..Len(rows) |-> Get(rows[i], UserId)]

\* C25: GROUP BY returns exactly one output row per distinct tuple of
\* group-by column values among its input rows, in the order in which each
\* tuple first occurs in the input, including when the values are integers
\* that first occur in descending order.
C25_GroupsInFirstSeenOrder ==
  GroupedByUser
  => (last.ok /\ UserIdsOf(last.rows) = FirstSeenFrom(last.before["orders"], 1, {}))

\* there is one output row per distinct user_id, whatever the order
C25_OneRowPerGroup ==
  GroupedByUser
  => /\ last.ok
     /\ {Get(last.rows[i], UserId) : i \in 1..Len(last.rows)}
        = {Get(last.before["orders"][i], UserId) : i \in 1..Len(last.before["orders"])}
     /\ \A i, j \in 1..Len(last.rows) :
          Get(last.rows[i], UserId) = Get(last.rows[j], UserId) => i = j

\* over orders with user_id 2, then 1, the query has returned the group of
\* user_id 1 first
C25_Witness ==
  /\ GroupedByUser /\ last.ok
  /\ last.before["orders"] = <<Order(1, 2), Order(2, 1)>>
  /\ UserIdsOf(last.rows) = <<Num(1), Num(2)>>

-----------------------------------------------------------------------------
(* SpecJoin: SELECT * FROM A <join> B [ON ...] over tables A(x, y), B(x, y) *)

ColX == <<"x">>
ColY == <<"y">>

XYDefs == <<[name |-> ColX, type |-> <<"INTEGER">>],
            [name |-> ColY, type |-> <<"INTEGER">>]>>

\* the (x, y) of the rows inserted
Pairs == {<<1, 2>>, <<2, 1>>, <<1, 1>>}

JoinTypes == {"INNER JOIN", "JOIN", "LEFT JOIN", "RIGHT JOIN", "CROSS JOIN"}

\* ON A.c = B.d, and the same equality written with B's column first
Forward == {On("A", c, "B", d) : c \in {ColX, ColY}, d \in {ColX, ColY}}
Backward == {On("B", d, "A", c) : c \in {ColX}, d \in {ColX, ColY}}

Ons == Forward \cup Backward \cup {<<>>}

\* conditions on a qualified column of the merged rows
JoinConds ==
  {[col |-> Qualified(tableName, ColX), op |-> op, lo |-> NumLit(1), hi |-> NumLit(1)] :
     tableName \in {"A", "B"}, op \in {"=", ">=", "<>"}}

\* SELECT * FROM A INNER JOIN B ON A.x = B.x WHERE c
InnerJoinWhere(c) ==
  JoinQuery(Star, "A", "INNER JOIN", "B", On("A", ColX, "B", ColX), CondText(c))

NextJoin ==
  \/ \E tableName \in {"A", "B"} : ExecCreateTable(tableName, XYDefs)
  \/ \E tableName \in {"A", "B"}, p \in Pairs :
       Room(tableName, MaxRows)
       /\ ExecInsert(tableName, <<ColX, ColY>>, <<NumLit(p[1]), NumLit(p[2])>>)
  \/ \E joinType \in JoinTypes, on \in Ons :
       ExecSelectJoin(JoinQuery(Star, "A", joinType, "B", on, <<>>))
  \/ \E c \in JoinConds : ExecSelectJoin(InnerJoinWhere(c))

SpecJoin == Init /\ [][NextJoin]_vars

\* the fields of row a of A and row b of B under their qualified names
MergedFields(a, b) ==
  {<<Qualified("A", a[i].c), a[i].v>> : i \in 1..Len(a)}
  \cup {<<Qualified("B", b[i].c), b[i].v>> : i \in 1..Len(b)}

RowFields(row) == {<<row[i].c, row[i].v>> : i \in 1..Len(row)}

\* the pairs (i, j) of a row of A and a row of B with a.c equal to b.d
EqualPairs(dataA, dataB, c, d) ==
  {p \in (1..Len(dataA)) \X (1..Len(dataB)) :
     LooseEq(Get(dataA[p[1]], c), Get(dataB[p[2]], d))}

\* rows holds, for each pair of pairs, the merged row of the pair as many
\* times as pairs has pairs with that merged row, and no other row
OneRowPerPair(rows, dataA, dataB, pairs) ==
  /\ Len(rows) = Cardinality(pairs)
  /\ \A p \in pairs :
       Cardinality({k \in 1..Len(rows) :
                      RowFields(rows[k]) = MergedFields(dataA[p[1]], dataB[p[2]])})
       = Cardinality({r \in pairs :
                        MergedFields(dataA[r[1]], dataB[r[2]])
                        = MergedFields(dataA[p[1]], dataB[p[2]])})

JoinedBothTables ==
  /\ last.op = "join"
  /\ "A" \in DOMAIN last.tablesBefore
  /\ "B" \in DOMAIN last.tablesBefore

\* C9: SELECT * FROM A INNER JOIN B ON A.x = B.y, the column names x and y
\* equal or not, returns one merged row for each pair (a, b) with a.x
\* loosely equal to b.y, and no other row.
C9_InnerJoinOnAnyColumns ==
  \A c \in {ColX, ColY}, d \in {ColX, ColY} :
    (/\ JoinedBothTables
     /\ last.stmt = JoinQuery(Star, "A", "INNER JOIN", "B", On("A", c, "B", d), <<>>))
    => (/\ last.ok
        /\ OneRowPerPair(last.rows, last.before["A"], last.before["B"],
                         EqualPairs(last.before["A"], last.before["B"], c, d)))

\* ON A.x = B.y over A = (1, 1) and B = (1, 2), where a.x is 1 and b.y
\* is 2, has returned a merged row
C9_Witness ==
  /\ JoinedBothTables /\ last.ok
  /\ last.stmt = JoinQuery(Star, "A", "INNER JOIN", "B", On("A", ColX, "B", ColY), <<>>)
  /\ last.before["A"] = <<<<[c |-> ColX, v |-> Num(1)], [c |-> ColY, v |-> Num(1)]>>>>
  /\ last.before["B"] = <<<<[c |-> ColX, v |-> Num(1)], [c |-> ColY, v |-> Num(2)]>>>>
  /\ Len(last.rows) = 1

\* row a of the table before LEFT JOIN is in the merged row
Carries(merged, a) ==
  \A i \in 1..Len(a) : <<Qualified("A", a[i].c), a[i].v>> \in RowFields(merged)

\* C10: FROM L LEFT JOIN R ON ... returns every row of L in at least one
\* merged row, and as many rows as L has when R has none.
C10_LeftJoinKeepsLeftRows ==
  (/\ JoinedBothTables
   /\ last.stmt.joinType = "LEFT JOIN"
   /\ last.stmt.on # <<>>)
  => (/\ last.ok
      /\ \A i \in 1..Len(last.before["A"]) :
           \E k \in 1..Len(last.rows) : Carries(last.rows[k], last.before["A"][i])
      /\ last.before["B"] = <<>> => Len(last.rows) = Len(last.before["A"]))

\* FROM A LEFT JOIN B ON B.x = A.x, with A holding a row and B none, has
\* returned no row
C10_Witness ==
  /\ JoinedBothTables /\ last.ok
  /\ last.stmt = JoinQuery(Star, "A", "LEFT JOIN", "B", On("B", ColX, "A", ColX), <<>>)
  /\ last.before["A"] # <<>>
  /\ last.before["B"] = <<>>
  /\ last.rows = <<>>

\* C11: a join SELECT with a trailing WHERE T.c op literal returns, in join
\* order, exactly the merged rows of the join whose field T.c satisfies
\* the comparison.
C11_WhereAfterJoin ==
  \A c \in JoinConds :
    (JoinedBothTables /\ last.stmt = InnerJoinWhere(c))
    => (/\ last.ok
        /\ last.rows
           = Satisfying(selectWithJoin(Before, [InnerJoinWhere(c) EXCEPT !.where = <<>>]).rows,
                        c))

\* WHERE A.x = 1 after the join of A = (1, 1) with B = (1, 1), whose one
\* merged row has A.x = 1, has returned no row
C11_Witness ==
  /\ JoinedBothTables /\ last.ok
  /\ last.stmt = InnerJoinWhere([col |-> Qualified("A", ColX), op |-> "=",
                                 lo |-> NumLit(1), hi |-> NumLit(1)])
  /\ last.before["A"] = <<<<[c |-> ColX, v |-> Num(1)], [c |-> ColY, v |-> Num(1)]>>>>
  /\ last.before["B"] = last.before["A"]
  /\ last.rows = <<>>

\* the ON equality with its two sides exchanged
Swapped(on) == On(on[1].t2, on[1].col2, on[1].t1, on[1].col1)

\* the merged rows as a set, each row the set of its fields
RowSet(rows) == {RowFields(rows[k]) : k \in 1..Len(rows)}

\* FROM A <kind> JOIN B ON B.d = A.x has run
JoinedBackward(kinds) ==
  /\ JoinedBothTables
  /\ last.stmt.joinType \in kinds
  /\ last.stmt.on \in Backward
  /\ last.stmt.where = <<>>

\* C28: the result of a two-table INNER, LEFT or RIGHT join does not depend
\* on the order in which the ON equality is written: FROM A <kind> JOIN B
\* ON B.y = A.x returns the set of merged rows that ON A.x = B.y returns,
\* the side a LEFT or RIGHT join preserves being given by the FROM clause.
C28_OnOrderIndependent ==
  JoinedBackward({"INNER JOIN", "LEFT JOIN", "RIGHT JOIN"})
  => (/\ last.ok
      /\ RowSet(last.rows)
         = RowSet(selectWithJoin(Before, [last.stmt EXCEPT !.on = Swapped(last.stmt.on)]).rows))

\* an INNER JOIN returns the same set of merged rows however the equality
\* is written
C28_InnerOnOrderIndependent ==
  JoinedBackward({"INNER JOIN"})
  => (/\ last.ok
      /\ RowSet(last.rows)
         = RowSet(selectWithJoin(Before, [last.stmt EXCEPT !.on = Swapped(last.stmt.on)]).rows))

\* FROM A LEFT JOIN B ON B.x = A.x over A = (1, 1) and B = (2, 1), where no
\* pair is equal, has returned the row of B with nulls for A; with ON
\* A.x = B.x it returns the row of A with nulls for B
C28_Witness ==
  /\ JoinedBackward({"LEFT JOIN"}) /\ last.ok
  /\ last.stmt.on = On("B", ColX, "A", ColX)
  /\ last.before["A"] = <<<<[c |-> ColX, v |-> Num(1)], [c |-> ColY, v |-> Num(1)]>>>>
  /\ last.before["B"] = <<<<[c |-> ColX, v |-> Num(2)], [c |-> ColY, v |-> Num(1)]>>>>
  /\ RowSet(last.rows)
     = {{<<Qualified("B", ColX), Num(2)>>, <<Qualified("B", ColY), Num(1)>>,
         <<Qualified("A", ColX), Null>>, <<Qualified("A", ColY), Null>>}}
  /\ RowSet(selectWithJoin(Before, [last.stmt EXCEPT !.on = Swapped(last.stmt.on)]).rows)
     = {{<<Qualified("A", ColX), Num(1)>>, <<Qualified("A", ColY), Num(1)>>,
         <<Qualified("B", ColX), Null>>, <<Qualified("B", ColY), Null>>}}

\* FROM A RIGHT JOIN B ON B.y = A.x, A holding a row and B none, has
\* returned a row
C28_RightWitness ==
  /\ JoinedBackward({"RIGHT JOIN"}) /\ last.ok
  /\ last.stmt.on = On("B", ColY, "A", ColX)
  /\ last.before["A"] # <<>>
  /\ last.before["B"] = <<>>
  /\ last.rows # <<>>

-----------------------------------------------------------------------------
(* SpecOrder: ORDER BY over a table s(k, v) whose rows may lack k           *)

ColK == <<"k">>
ColV == <<"v">>

SDefs == <<[name |-> ColK, type |-> <<"INTEGER">>], [name |-> ColV, type |-> <<"INTEGER">>]>>

\* the ORDER BY clauses tried, each with the keys it names:
\* [text, keys], a key being [col, desc]
Key(col, desc) == [col |-> col, desc |-> desc]

OrderClauses ==
  {[text |-> ColK, keys |-> <<Key(ColK, FALSE)>>],
   [text |-> ColK \o <<" ", "DESC">>, keys |-> <<Key(ColK, TRUE)>>],
   [text |-> ColK \o <<" ", "ASC", ",", " ">> \o ColV \o <<" ", "DESC">>,
    keys |-> <<Key(ColK, FALSE), Key(ColV, TRUE)>>],
   [text |-> Qualified("s", ColK) \o <<" ", "desc", ",", " ">> \o ColV,
    keys |-> <<Key(ColK, TRUE), Key(ColV, FALSE)>>]}

\* SELECT * FROM s ORDER BY o
Ordered(o) == [Query(Star, "s", <<>>) EXCEPT !.orderBy = o.text]

NextOrder ==
  \/ ExecCreateTable("s", SDefs)
  \/ \E k \in {1, 2}, v \in {1, 2} :
       Room("s", MaxSorted) /\ ExecInsert("s", <<ColK, ColV>>, <<NumLit(k), NumLit(v)>>)
  \/ \E v \in {1, 2} : Room("s", MaxSorted) /\ ExecInsert("s", <<ColV>>, <<NumLit(v)>>)
  \/ \E o \in OrderClauses : ExecSelect(Ordered(o))

SpecOrder == Init /\ [][NextOrder]_vars

\* a's value of the key is before b's in the key's direction
KeyBefore(a, b, key) ==
  /\ HasField(a, key.col)
  /\ HasField(b, key.col)
  /\ IF key.desc THEN Get(a, key.col).n > Get(b, key.col).n
     ELSE Get(a, key.col).n < Get(b, key.col).n

\* a and b are equal on the key
KeyEqual(a, b, key) == Get(a, key.col) = Get(b, key.col)

\* a is before b by the keys: by the first key on which they are not equal
RowBefore(a, b, keys) ==
  \E m \in 1..Len(keys) :
    /\ KeyBefore(a, b, keys[m])
    /\ \A j \in 1..(m - 1) : KeyEqual(a, b, keys[j])

RowEqual(a, b, keys) == \A m \in 1..Len(keys) : KeyEqual(a, b, keys[m])

\* out is input taken in the order p, no row is after a row it is before
\* by the keys, and rows equal on every key are in their input order
SortedBy(out, input, keys, p) ==
  /\ out = [i \in 1..Len(input) |-> input[p[i]]]
  /\ \A i, j \in 1..Len(input) :
       i < j => /\ ~RowBefore(out[j], out[i], keys)
                /\ RowEqual(out[i], out[j], keys) => p[i] < p[j]

Orders(n) == {p \in [1..n -> 1..n] : \A i, j \in 1..n : p[i] = p[j] => i = j}

OrderedResult(input, keys) ==
  /\ last.ok
  /\ \E p \in Orders(Len(input)) : SortedBy(last.rows, input, keys, p)

\* C13: ORDER BY k1 [ASC|DESC], ..., kn [ASC|DESC] returns a permutation of
\* its input rows in which no row comes after a row that it precedes by the
\* keys (by k1 in its direction, then among rows equal on k1 by k2, and so
\* on), and rows equal on every key keep their input order.
C13_OrderBy ==
  \A o \in OrderClauses :
    (last.op = "select" /\ last.stmt = Ordered(o) /\ "s" \in DOMAIN last.tablesBefore)
    => OrderedResult(last.before["s"], o.keys)

\* the same, for the tables all of whose rows have k
C13_OrderByWhenAllHaveKeys ==
  \A o \in OrderClauses :
    (/\ last.op = "select"
     /\ last.stmt = Ordered(o)
     /\ "s" \in DOMAIN last.tablesBefore
     /\ \A i \in 1..Len(last.before["s"]) : HasField(last.before["s"][i], ColK))
    => OrderedResult(last.before["s"], o.keys)

SRow(k, v) == <<[c |-> ColK, v |-> Num(k)], [c |-> ColV, v |-> Num(v)]>>

\* ORDER BY k over k = 2, a row without k, k = 1 has returned the rows as
\* they were: the row of k = 2 before the row of k = 1
C13_Witness ==
  /\ last.op = "select"
  /\ last.ok
  /\ last.stmt = Ordered([text |-> ColK, keys |-> <<Key(ColK, FALSE)>>])
  /\ "s" \in DOMAIN last.tablesBefore
  /\ last.before["s"] = <<SRow(2, 1), <<[c |-> ColV, v |-> Num(1)]>>, SRow(1, 1)>>
  /\ last.rows = last.before["s"]

\* ORDER BY k ASC, v DESC over (2,1), (1,2), (2,2) has returned (1,2),
\* (2,2), (2,1)
C13_SortedWitness ==
  /\ last.op = "select"
  /\ last.stmt
     = Ordered([text |-> ColK \o <<" ", "ASC", ",", " ">> \o ColV \o <<" ", "DESC">>,
                keys |-> <<Key(ColK, FALSE), Key(ColV, TRUE)>>])
  /\ "s" \in DOMAIN last.tablesBefore
  /\ last.before["s"] = <<SRow(2, 1), SRow(1, 2), SRow(2, 2)>>
  /\ last.rows = <<SRow(1, 2), SRow(2, 2), SRow(2, 1)>>

-----------------------------------------------------------------------------
(* SpecLimit: LIMIT and OFFSET over the rows r0, r1, ... of items(id)       *)

ItemsDefs == <<[name |-> Id, type |-> <<"INTEGER">>]>>

\* INSERT INTO items (id) VALUES (n), n the number of rows of items
ExecInsertItem ==
  /\ Room("items", MaxItems)
  /\ ExecInsert("items", <<Id>>, <<NumLit(Len(getTableData(store, "items")))>>)

Counts == 0..3

\* "n OFFSET m", "m, n" and "n" after LIMIT
LimitOffset(n, m) == Decimal(n) \o <<" ", "OFFSET", " ">> \o Decimal(m)
LimitLegacy(m, n) == Decimal(m) \o <<",", " ">> \o Decimal(n)
LimitOnly(n) == Decimal(n)

\* SELECT * FROM items [ORDER BY id DESC] LIMIT limitClause
Limited(desc, limitClause) ==
  [Query(Star, "items", <<>>)
     EXCEPT !.orderBy = IF desc THEN Id \o <<" ", "DESC">> ELSE <<>>,
            !.limit = limitClause]

NextLimit ==
  \/ ExecCreateTable("items", ItemsDefs)
  \/ ExecInsertItem
  \/ \E desc \in BOOLEAN, n \in Counts, m \in Counts : ExecSelect(Limited(desc, LimitOffset(n, m)))
  \/ \E desc \in BOOLEAN, n \in Counts, m \in Counts : ExecSelect(Limited(desc, LimitLegacy(m, n)))
  \/ \E desc \in BOOLEAN, n \in Counts : ExecSelect(Limited(desc, LimitOnly(n)))

SpecLimit == Init /\ [][NextLimit]_vars

\* the rows of items in the order the query asks for
OrderedItems(data, desc) ==
  IF desc THEN [i \in 1..Len(data) |-> data[Len(data) + 1 - i]] ELSE data

\* the number of rows at the positions m to m+n-1 of len rows
Within(len, m, n) == IF m >= len THEN 0 ELSE IF m + n > len THEN len - m ELSE n

\* last.rows are the rows at the positions m to m+n-1 of ordered
ReturnsRange(ordered, m, n) ==
  /\ last.ok
  /\ Len(last.rows) = Within(Len(ordered), m, n)
  /\ \A i \in 1..Len(last.rows) : last.rows[i] = ordered[m + i]

Item(n) == <<[c |-> Id, v |-> Num(n)]>>

\* C14: for n >= 0 and m >= 0, LIMIT n OFFSET m and LIMIT m, n return the
\* rows at the positions m to m+n-1 of the ordered input (fewer when the
\* input ends earlier) and LIMIT n returns the first n rows; over the five
\* rows r0..r4, LIMIT 2 OFFSET 1 and LIMIT 1, 2 return [r1, r2].
C14_LimitOffset ==
  (last.op = "select" /\ "items" \in DOMAIN last.tablesBefore)
  => \A desc \in BOOLEAN, n \in Counts :
       /\ \A m \in Counts :
            last.stmt \in {Limited(desc, LimitOffset(n, m)), Limited(desc, LimitLegacy(m, n))}
            => ReturnsRange(OrderedItems(last.before["items"], desc), m, n)
       /\ last.stmt = Limited(desc, LimitOnly(n))
          => ReturnsRange(OrderedItems(last.before["items"], desc), 0, n)
       /\ (/\ last.stmt \in {Limited(FALSE, LimitOffset(2, 1)), Limited(FALSE, LimitLegacy(1, 2))}
           /\ Len(last.before["items"]) = 5)
          => last.rows = <<Item(1), Item(2)>>

\* LIMIT 1, 2 over the five rows r0..r4 has returned [r1, r2]
C14_Witness ==
  /\ last.op = "select"
  /\ last.stmt = Limited(FALSE, LimitLegacy(1, 2))
  /\ "items" \in DOMAIN last.tablesBefore
  /\ last.before["items"] = <<Item(0), Item(1), Item(2), Item(3), Item(4)>>
  /\ last.rows = <<Item(1), Item(2)>>

-----------------------------------------------------------------------------
(* SpecDistinct: SELECT DISTINCT over a table d(a, b) of texts              *)

DDefs == <<[name |-> ColA, type |-> <<"TEXT">>], [name |-> ColB, type |-> <<"TEXT">>]>>

TextsA == {<<"x">>, <<"x", "|", "y">>}
TextsB == {<<"z">>, <<"y", "|", "z">>, <<>>}

\* SELECT DISTINCT columns FROM d
Distinct(columns) == [Query(columns, "d", <<>>) EXCEPT !.distinct = TRUE]

DistinctLists == {<<ColA, ColB>>, <<ColA>>, <<ColB>>}

NextDistinct ==
  \/ ExecCreateTable("d", DDefs)
  \/ \E a \in TextsA, b \in TextsB :
       Room("d", MaxRows) /\ ExecInsert("d", <<ColA, ColB>>, <<TextLit(a), TextLit(b)>>)
  \/ \E a \in TextsA : Room("d", MaxRows) /\ ExecInsert("d", <<ColA>>, <<TextLit(a)>>)
  \/ \E columns \in DistinctLists : ExecSelect(Distinct(columns))
  \/ ExecSelect(Distinct(Star))

SpecDistinct == Init /\ [][NextDistinct]_vars

\* the tuple of the row's values of the columns
Tuple(row, columns) == [i \in 1..Len(columns) |-> Get(row, columns[i])]

\* the first row of data carrying each tuple, in input order
FirstOfTuple(data, columns) ==
  Pick(data, [i \in 1..Len(data) |->
                \A j \in 1..(i - 1) : Tuple(data[j], columns) # Tuple(data[i], columns)])

\* C15: SELECT DISTINCT c1, ..., ck FROM t returns one row per distinct
\* tuple of (c1, ..., ck) values, the first row carrying the tuple, in input
\* order; rows whose tuples differ in any column value (a missing value
\* against the empty text, texts that contain "|") are not merged.
C15_DistinctTuples ==
  \A columns \in DistinctLists :
    (last.op = "select" /\ last.stmt = Distinct(columns) /\ "d" \in DOMAIN last.tablesBefore)
    => /\ last.ok
       /\ last.rows = projectAll(FirstOfTuple(last.before["d"], columns), columns)

DRow(a, b) == <<[c |-> ColA, v |-> Str(a)], [c |-> ColB, v |-> Str(b)]>>

\* SELECT DISTINCT a, b over ('x|y', 'z'), ('x', 'y|z') has returned one row
C15_Witness ==
  /\ last.op = "select"
  /\ last.ok
  /\ last.stmt = Distinct(<<ColA, ColB>>)
  /\ "d" \in DOMAIN last.tablesBefore
  /\ last.before["d"] = <<DRow(<<"x", "|", "y">>, <<"z">>), DRow(<<"x">>, <<"y", "|", "z">>)>>
  /\ last.rows = <<DRow(<<"x", "|", "y">>, <<"z">>)>>

\* SELECT DISTINCT a, b over ('x', ''), and a row of a = 'x' without b, has
\* returned one row
C15_MissingAgainstEmpty ==
  /\ last.op = "select"
  /\ last.ok
  /\ last.stmt = Distinct(<<ColA, ColB>>)
  /\ "d" \in DOMAIN last.tablesBefore
  /\ last.before["d"] = <<DRow(<<"x">>, <<>>), <<[c |-> ColA, v |-> Str(<<"x">>)]>>>>
  /\ Len(last.rows) = 1

\* the same claim, for the tables whose texts have no "|" and whose rows all
\* have a non-empty b
C15_DistinctPlainTexts ==
  \A columns \in DistinctLists :
    (/\ last.op = "select"
     /\ last.stmt = Distinct(columns)
     /\ "d" \in DOMAIN last.tablesBefore
     /\ \A i \in 1..Len(last.before["d"]) :
          /\ Get(last.before["d"][i], ColA) = Str(<<"x">>)
          /\ Get(last.before["d"][i], ColB) = Str(<<"z">>))
    => /\ last.ok
       /\ last.rows = projectAll(FirstOfTuple(last.before["d"], columns), columns)

-----------------------------------------------------------------------------
(* SpecPipeline: the clauses of one SELECT over a table p(id, c)            *)

ColC == <<"c">>

PDefs == <<[name |-> Id, type |-> <<"INTEGER">>], [name |-> ColC, type |-> <<"INTEGER">>]>>

\* INSERT INTO p (id, c) VALUES (id, c), the ids given in sequence
ExecInsertP(c) ==
  /\ Room("p", MaxSorted)
  /\ ExecInsert("p", <<Id, ColC>>, <<NumLit(Len(getTableData(store, "p")) + 1), NumLit(c)>>)

Above1 == Cmp(ColC, ">", NumLit(1))

CDesc == ColC \o <<" ", "DESC">>

\* SELECT DISTINCT c FROM p [WHERE c > 1] [ORDER BY c DESC] LIMIT n
DistinctLimited(filter, desc, n) ==
  [Query(<<ColC>>, "p", IF filter THEN Above1 ELSE <<>>)
     EXCEPT !.distinct = TRUE,
            !.orderBy = IF desc THEN CDesc ELSE <<>>,
            !.limit = Decimal(n)]

\* SELECT c FROM p GROUP BY c ORDER BY c DESC LIMIT n
GroupedLimited(n) ==
  [Query(<<ColC>>, "p", <<>>)
     EXCEPT !.groupBy = <<ColC>>, !.orderBy = CDesc, !.limit = Decimal(n)]

Limits == 1..3

NextPipeline ==
  \/ ExecCreateTable("p", PDefs)
  \/ \E c \in 1..3 : ExecInsertP(c)
  \/ \E filter \in BOOLEAN, desc \in BOOLEAN, n \in Limits :
       ExecSelect(DistinctLimited(filter, desc, n))
  \/ \E n \in Limits : ExecSelect(GroupedLimited(n))

SpecPipeline == Init /\ [][NextPipeline]_vars

\* the stages, each stated on its own
Kept(data, filter) ==
  IF filter THEN Pick(data, [i \in 1..Len(data) |-> Get(data[i], ColC).n > 1]) ELSE data

DescendingOrder(data) ==
  CHOOSE p \in Orders(Len(data)) :
    SortedBy([i \in 1..Len(data) |-> data[p[i]]], data, <<Key(ColC, TRUE)>>, p)

Arranged(data, desc) ==
  IF desc THEN [i \in 1..Len(data) |-> data[DescendingOrder(data)[i]]] ELSE data

FirstRows(data, n) == SubSeq(data, 1, IF n < Len(data) THEN n ELSE Len(data))

OnlyC(data) == [i \in 1..Len(data) |-> <<[c |-> ColC, v |-> Get(data[i], ColC)]>>]

PRow(id, c) == <<[c |-> Id, v |-> Num(id)], [c |-> ColC, v |-> Num(c)]>>

-----------------------------------------------------------------------------
(* SpecUnion: UNION and UNION ALL of two tables t1(a, b), t2(a, b)          *)

\* the rows (1,'x'), (2,'y'), (3,'z')
Letters == <<"x", "y", "z">>

ExecInsertPair(tableName, n) ==
  /\ Room(tableName, MaxRows)
  /\ ExecInsert(tableName, <<ColA, ColB>>, <<NumLit(n), TextLit(<<Letters[n]>>)>>)

\* SELECT a, b FROM t1 UNION [ALL] SELECT columns FROM t2
Union(all, columns) ==
  [all |-> all, parts |-> <<Query(<<ColA, ColB>>, "t1", <<>>), Query(columns, "t2", <<>>)>>]

SecondLists == {<<ColA, ColB>>, <<ColB, ColA>>}

NextUnion ==
  \/ \E tableName \in {"t1", "t2"} : ExecCreateTable(tableName, TDefs)
  \/ \E tableName \in {"t1", "t2"}, n \in 1..3 : ExecInsertPair(tableName, n)
  \/ \E all \in BOOLEAN, columns \in SecondLists : ExecSelectUnion(Union(all, columns))

SpecUnion == Init /\ [][NextUnion]_vars

\* the field-to-value mapping of a row
Mapping(row) == {<<row[i].c, row[i].v>> : i \in 1..Len(row)}

\* data without each later row whose mapping equals an earlier row's
FirstOfMapping(data) ==
  Pick(data, [i \in 1..Len(data) |-> \A j \in 1..(i - 1) : Mapping(data[j]) # Mapping(data[i])])

\* the result of A followed by the result of B
Concatenation(columns) ==
  projectAll(last.before["t1"], <<ColA, ColB>>) \o projectAll(last.before["t2"], columns)

UnitedBothTables ==
  /\ last.op = "union"
  /\ "t1" \in DOMAIN last.tablesBefore
  /\ "t2" \in DOMAIN last.tablesBefore

Pair(n) == <<[c |-> ColA, v |-> Num(n)], [c |-> ColB, v |-> Str(<<Letters[n]>>)]>>

\* C12: A UNION ALL B returns the result of A followed by the result of B,
\* and A UNION B returns that concatenation without each later row whose
\* field-to-value mapping equals an earlier row's, whatever order the fields
\* of the rows were created in; for A = {(1,'x'),(2,'y')} and
\* B = {(1,'x'),(3,'z')} UNION has 3 rows and UNION ALL has 4.
C12_Union ==
  UnitedBothTables
  => /\ \A columns \in SecondLists :
          /\ last.stmt = Union(TRUE, columns)
             => last.ok /\ last.rows = Concatenation(columns)
          /\ last.stmt = Union(FALSE, columns)
             => last.ok /\ last.rows = FirstOfMapping(Concatenation(columns))
     /\ (/\ last.before["t1"] = <<Pair(1), Pair(2)>>
         /\ last.before["t2"] = <<Pair(1), Pair(3)>>)
        => /\ last.stmt = Union(TRUE, <<ColA, ColB>>) => Len(last.rows) = 4
           /\ last.stmt = Union(FALSE, <<ColA, ColB>>) => Len(last.rows) = 3

\* SELECT a, b FROM t1 UNION SELECT b, a FROM t2 over t1 = t2 = {(1,'x')}
\* has returned two rows
C12_Witness ==
  /\ UnitedBothTables
  /\ last.ok
  /\ last.stmt = Union(FALSE, <<ColB, ColA>>)
  /\ last.before["t1"] = <<Pair(1)>>
  /\ last.before["t2"] = <<Pair(1)>>
  /\ Len(last.rows) = 2

\* the same claim, for the queries whose two parts list the columns in the
\* same order
C12_UnionSameFieldOrder ==
  UnitedBothTables
  => /\ last.stmt = Union(TRUE, <<ColA, ColB>>)
        => last.ok /\ last.rows = Concatenation(<<ColA, ColB>>)
     /\ last.stmt = Union(FALSE, <<ColA, ColB>>)
        => last.ok /\ last.rows = FirstOfMapping(Concatenation(<<ColA, ColB>>))
     /\ (/\ last.before["t1"] = <<Pair(1), Pair(2)>>
         /\ last.before["t2"] = <<Pair(1), Pair(3)>>)
        => /\ last.stmt = Union(TRUE, <<ColA, ColB>>) => Len(last.rows) = 4
           /\ last.stmt = Union(FALSE, <<ColA, ColB>>) => Len(last.rows) = 3

\* UNION over {(1,'x'),(2,'y')} and {(1,'x'),(3,'z')} has returned 3 rows
C12_ThreeRows ==
  /\ UnitedBothTables
  /\ last.stmt = Union(FALSE, <<ColA, ColB>>)
  /\ last.before["t1"] = <<Pair(1), Pair(2)>>
  /\ last.before["t2"] = <<Pair(1), Pair(3)>>
  /\ Len(last.rows) = 3

-----------------------------------------------------------------------------
(* SpecExists: a correlated EXISTS over the tables O(d) and I(c)            *)

ColD == <<"d">>

ODefs == <<[name |-> ColD, type |-> <<"TEXT">>]>>
IDefs == <<[name |-> ColC, type |-> <<"TEXT">>]>>

\* the values stored in d and in c: 1, 'x', 'y' and 'x=y'
Stored == {NumLit(1), TextLit(<<"x">>), TextLit(<<"y">>), TextLit(<<"x", "=", "y">>)}

Correlated == "SELECT 1 FROM I WHERE I.c = O.d"

\* SELECT * FROM O WHERE [NOT] EXISTS (SELECT 1 FROM I WHERE I.c = O.d)
Exists(not) ==
  Query(Star, "O",
        (IF not THEN <<"NOT", " ">> ELSE <<>>) \o <<"EXISTS", " ", "(", Correlated, ")">>)

NextExists ==
  \/ ExecCreateTable("O", ODefs)
  \/ ExecCreateTable("I", IDefs)
  \/ \E l \in Stored : Room("O", MaxRows) /\ ExecInsert("O", <<ColD>>, <<l>>)
  \/ \E l \in Stored : Room("I", MaxRows) /\ ExecInsert("I", <<ColC>>, <<l>>)
  \/ \E not \in BOOLEAN : ExecSelect(Exists(not))

SpecExists == Init /\ [][NextExists]_vars

SelectedBothTables ==
  /\ last.op = "select"
  /\ "O" \in DOMAIN last.tablesBefore
  /\ "I" \in DOMAIN last.tablesBefore

\* some row of inner has c equal to the row's d
HasEqual(inner, row) == \E k \in 1..Len(inner) : Get(inner[k], ColC) = Get(row, ColD)

\* the rows of outer for which HasEqual is b
WithEqual(outer, inner, b) ==
  Pick(outer, [i \in 1..Len(outer) |-> HasEqual(inner, outer[i]) = b])

\* the subquery with O.d replaced by the literal of the value v
Substituted(v) ==
  Query(<<<<"1">>>>, "I", <<"I", ".", "c", " ", "=", " ">> \o formatValue(v))

\* C16: SELECT * FROM O WHERE EXISTS (SELECT 1 FROM I WHERE I.c = O.d)
\* returns the rows of O for which some row of I has c equal to the row's d,
\* NOT EXISTS returns the other rows of O, and the subquery run for a row is
\* its text with O.d replaced by the row's value as a literal.
C16_CorrelatedExists ==
  SelectedBothTables
  => /\ \A not \in BOOLEAN :
          last.stmt = Exists(not)
          => /\ last.ok
             /\ last.rows = WithEqual(last.before["O"], last.before["I"], ~not)
     /\ \A i \in 1..Len(last.before["O"]) :
          correlateSubquery(Parsed(Correlated), last.before["O"][i], "O")
          = Substituted(Get(last.before["O"][i], ColD))

\* the same, for the tables whose texts have no "="
C16_ExistsPlainValues ==
  (/\ SelectedBothTables
   /\ \A i \in 1..Len(last.before["O"]) : ~Contains(Get(last.before["O"][i], ColD).s, "="))
  => /\ \A not \in BOOLEAN :
          last.stmt = Exists(not)
          => /\ last.ok
             /\ last.rows = WithEqual(last.before["O"], last.before["I"], ~not)
     /\ \A i \in 1..Len(last.before["O"]) :
          correlateSubquery(Parsed(Correlated), last.before["O"][i], "O")
          = Substituted(Get(last.before["O"][i], ColD))

\* EXISTS over O = {'x=y'} and I = {'x=y'} has returned no row
C16_Witness ==
  /\ SelectedBothTables
  /\ last.ok
  /\ last.stmt = Exists(FALSE)
  /\ last.before["O"] = <<<<[c |-> ColD, v |-> Str(<<"x", "=", "y">>)]>>>>
  /\ last.before["I"] = <<<<[c |-> ColC, v |-> Str(<<"x", "=", "y">>)]>>>>
  /\ last.rows = <<>>

\* EXISTS over O = {'x', 'y'} and I = {'y'} has returned the row of 'y'
C16_PlainWitness ==
  /\ SelectedBothTables
  /\ last.stmt = Exists(FALSE)
  /\ last.before["O"] = <<<<[c |-> ColD, v |-> Str(<<"x">>)]>>, <<[c |-> ColD, v |-> Str(<<"y">>)]>>>>
  /\ last.before["I"] = <<<<[c |-> ColC, v |-> Str(<<"y">>)]>>>>
  /\ last.rows = <<<<[c |-> ColD, v |-> Str(<<"y">>)]>>>>

-----------------------------------------------------------------------------
(* SpecIn: IN and NOT IN over the tables O(d, e) and I(c, e), whose rows    *)
(* may lack d and c                                                         *)

ColE == <<"e">>

ODefsE == <<[name |-> ColD, type |-> <<"TEXT">>], [name |-> ColE, type |-> <<"INTEGER">>]>>
IDefsE == <<[name |-> ColC, type |-> <<"TEXT">>], [name |-> ColE, type |-> <<"INTEGER">>]>>

Members == {NumLit(1), TextLit(<<"x">>)}

\* "d [NOT] IN (content)"
InList(not, content) ==
  ColD \o <<" ">> \o (IF not THEN <<"NOT", " ">> ELSE <<>>) \o <<"IN", " ", "(">> \o content \o <<")">>

\* SELECT * FROM O WHERE d [NOT] IN (SELECT c FROM I)
InSubquery(not) == Query(Star, "O", InList(not, <<"SELECT c FROM I">>))

\* SELECT * FROM O WHERE d [NOT] IN (1, 'x')
InLiterals(not) == Query(Star, "O", InList(not, ValuesText(<<NumLit(1), TextLit(<<"x">>)>>)))

NextIn ==
  \/ ExecCreateTable("O", ODefsE)
  \/ ExecCreateTable("I", IDefsE)
  \/ \E l \in Members : Room("O", MaxRows) /\ ExecInsert("O", <<ColD, ColE>>, <<l, NumLit(1)>>)
  \/ Room("O", MaxRows) /\ ExecInsert("O", <<ColE>>, <<NumLit(1)>>)
  \/ \E l \in Members : Room("I", MaxRows) /\ ExecInsert("I", <<ColC, ColE>>, <<l, NumLit(1)>>)
  \/ Room("I", MaxRows) /\ ExecInsert("I", <<ColE>>, <<NumLit(1)>>)
  \/ \E not \in BOOLEAN : ExecSelect(InSubquery(not))
  \/ \E not \in BOOLEAN : ExecSelect(InLiterals(not))

SpecIn == Init /\ [][NextIn]_vars

\* the row has a value for d and it is one of values
Member(row, values) == HasField(row, ColD) /\ Get(row, ColD) \in values

\* the first-column values of SELECT c FROM I
FirstColumn(inner) == {Get(inner[k], ColC) : k \in 1..Len(inner)}

HavingD(data) == Pick(data, [i \in 1..Len(data) |-> HasField(data[i], ColD)])

\* IN returns the rows of outer that are members of values; NOT IN returns,
\* of the rows that have d, those that are not
InResult(not, outer, values) ==
  /\ last.ok
  /\ ~not => last.rows = Pick(outer, [i \in 1..Len(outer) |-> Member(outer[i], values)])
  /\ not => HavingD(last.rows)
            = Pick(outer, [i \in 1..Len(outer) |->
                             HasField(outer[i], ColD) /\ ~Member(outer[i], values)])

\* C17: col IN (SELECT ...) is true for a row exactly when the row has a
\* value for col and it equals the first-column value of some row of the
\* subquery's result; NOT IN is its negation for the rows that have a value
\* for col; a row without col matches no IN list.
C17_InSubquery ==
  SelectedBothTables
  => \A not \in BOOLEAN :
       /\ last.stmt = InSubquery(not)
          => InResult(not, last.before["O"], FirstColumn(last.before["I"]))
       /\ last.stmt = InLiterals(not)
          => InResult(not, last.before["O"], {Num(1), Str(<<"x">>)})

\* the same, for the tables I whose rows all have c
C17_InWhenSubqueryHasValues ==
  (/\ SelectedBothTables
   /\ \A k \in 1..Len(last.before["I"]) : HasField(last.before["I"][k], ColC))
  => \A not \in BOOLEAN :
       /\ last.stmt = InSubquery(not)
          => InResult(not, last.before["O"], FirstColumn(last.before["I"]))
       /\ last.stmt = InLiterals(not)
          => InResult(not, last.before["O"], {Num(1), Str(<<"x">>)})

\* d IN (SELECT c FROM I) has returned the row of O that has no d, I
\* holding a row that has no c
C17_Witness ==
  /\ SelectedBothTables
  /\ last.ok
  /\ last.stmt = InSubquery(FALSE)
  /\ last.before["O"] = <<<<[c |-> ColE, v |-> Num(1)]>>>>
  /\ last.before["I"] = <<<<[c |-> ColE, v |-> Num(1)]>>>>
  /\ last.rows = last.before["O"]

-----------------------------------------------------------------------------
(* SpecScalar: a scalar subquery on the right of a comparison, over the     *)
(* tables O(d) and I(c) of numbers                                          *)

ODefsN == <<[name |-> ColD, type |-> <<"INTEGER">>]>>
IDefsN == <<[name |-> ColC, type |-> <<"INTEGER">>]>>

ScalarOperators == {">", "=", "<="}

\* SELECT * FROM O WHERE d op (SELECT c FROM I), with or without the
\* parentheses
Scalar(op, parens) ==
  Query(Star, "O",
        ColD \o <<" ", op, " ">>
        \o (IF parens THEN <<"(", "SELECT c FROM I", ")">> ELSE <<"SELECT c FROM I">>))

NextScalar ==
  \/ ExecCreateTable("O", ODefsN)
  \/ ExecCreateTable("I", IDefsN)
  \/ \E n \in 1..3 : Room("O", MaxRows) /\ ExecInsert("O", <<ColD>>, <<NumLit(n)>>)
  \/ \E n \in 1..3 : Room("I", MaxRows) /\ ExecInsert("I", <<ColC>>, <<NumLit(n)>>)
  \/ \E op \in ScalarOperators, parens \in BOOLEAN : ExecSelect(Scalar(op, parens))

SpecScalar == Init /\ [][NextScalar]_vars

\* x op y for two numbers
Holds(op, x, y) ==
  CASE op = ">" -> x > y
    [] op = "=" -> x = y
    [] op = "<=" -> x <= y

\* no row when the subquery returns none, else the rows of outer whose d
\* compares with the c of the first row of inner
ScalarResult(op, outer, inner) ==
  /\ last.ok
  /\ last.rows
     = IF inner = <<>> THEN <<>>
       ELSE Pick(outer, [i \in 1..Len(outer) |->
                           Holds(op, Get(outer[i], ColD).n, Get(inner[1], ColC).n)])

\* C18: a leaf col op (SELECT ...) with a parenthesized scalar subquery
\* executes the subquery; it is false when the subquery returns no row and
\* is otherwise the comparison of the row's col with the first column of
\* the subquery's first row.
C18_ScalarSubquery ==
  SelectedBothTables
  => \A op \in ScalarOperators :
       last.stmt = Scalar(op, TRUE) => ScalarResult(op, last.before["O"], last.before["I"])

\* the same, for the subquery written without parentheses
C18_ScalarWithoutParentheses ==
  SelectedBothTables
  => \A op \in ScalarOperators :
       last.stmt = Scalar(op, FALSE) => ScalarResult(op, last.before["O"], last.before["I"])

\* d > (SELECT c FROM I) over O = {2} and I = {1} has returned no row
C18_Witness ==
  /\ SelectedBothTables
  /\ last.ok
  /\ last.stmt = Scalar(">", TRUE)
  /\ last.before["O"] = <<<<[c |-> ColD, v |-> Num(2)]>>>>
  /\ last.before["I"] = <<<<[c |-> ColC, v |-> Num(1)]>>>>
  /\ last.rows = <<>>

-----------------------------------------------------------------------------
(* SpecFold: WHERE clauses of two and three leaves over O(d, e) and I(c)    *)

\* the leaves: d = 1, e = 1, d IN (1, 2), e IS NOT NULL, EXISTS (SELECT 1 FROM I)
LeafD == Cmp(ColD, "=", NumLit(1))
LeafE == Cmp(ColE, "=", NumLit(1))
LeafIn == ColD \o <<" ", "IN", " ", "(">> \o ValuesText(<<NumLit(1), NumLit(2)>>) \o <<")">>
LeafNotNull == ColE \o <<" ", "IS", " ", "NOT", " ", "NULL">>
LeafExists == <<"EXISTS", " ", "(", "SELECT 1 FROM I", ")">>

Connectives == {"AND", "OR"}

\* the clauses tried: [leaves, connectives]
PlainClauses ==
  {[leaves |-> <<LeafD, LeafE, l>>, connectives |-> <<c1, c2>>] :
     l \in {LeafIn, LeafNotNull}, c1 \in Connectives, c2 \in Connectives}
  \cup {[leaves |-> <<l, LeafE>>, connectives |-> <<c1>>] :
          l \in {LeafIn, LeafNotNull}, c1 \in Connectives}

ExistsClauses ==
  {[leaves |-> <<LeafD, LeafExists>>, connectives |-> <<c1>>] : c1 \in Connectives}
  \cup {[leaves |-> <<LeafExists, LeafD>>, connectives |-> <<c1>>] : c1 \in Connectives}

\* "L1 c1 L2 c2 ... Ln"
RECURSIVE ClauseText(_, _)
ClauseText(clause, n) ==
  IF n = 1 THEN clause.leaves[1]
  ELSE ClauseText(clause, n - 1) \o <<" ", clause.connectives[n - 1], " ">> \o clause.leaves[n]

\* SELECT * FROM O WHERE clause
Folded(clause) == Query(Star, "O", ClauseText(clause, Len(clause.leaves)))

NextFold ==
  \/ ExecCreateTable("O", ODefsE)
  \/ ExecCreateTable("I", IDefsN)
  \/ \E d \in 1..3, e \in 1..2 :
       Room("O", MaxRows) /\ ExecInsert("O", <<ColD, ColE>>, <<NumLit(d), NumLit(e)>>)
  \/ \E d \in 1..3 : Room("O", MaxRows) /\ ExecInsert("O", <<ColD>>, <<NumLit(d)>>)
  \/ Room("I", MaxRows) /\ ExecInsert("I", <<ColC>>, <<NumLit(1)>>)
  \/ \E clause \in PlainClauses : ExecSelect(Folded(clause))
  \/ \E clause \in ExistsClauses : ExecSelect(Folded(clause))

SpecFold == Init /\ [][NextFold]_vars

\* whether the leaf is true of the row, inner being the rows of I
Truth(leaf, row, inner) ==
  CASE leaf = LeafD -> Get(row, ColD) = Num(1)
    [] leaf = LeafE -> Get(row, ColE) = Num(1)
    [] leaf = LeafIn -> Get(row, ColD) \in {Num(1), Num(2)}
    [] leaf = LeafNotNull -> HasField(row, ColE)
    [] leaf = LeafExists -> inner # <<>>

\* ((L1 c1 L2) c2 L3) ...: the fold of the first n leaves
RECURSIVE FoldOf(_, _, _, _)
FoldOf(clause, row, inner, n) ==
  IF n = 1 THEN Truth(clause.leaves[1], row, inner)
  ELSE IF clause.connectives[n - 1] = "AND"
  THEN FoldOf(clause, row, inner, n - 1) /\ Truth(clause.leaves[n], row, inner)
  ELSE FoldOf(clause, row, inner, n - 1) \/ Truth(clause.leaves[n], row, inner)

ReturnsFold(clause, outer, inner) ==
  /\ last.ok
  /\ last.rows
     = Pick(outer, [i \in 1..Len(outer) |-> FoldOf(clause, outer[i], inner, Len(clause.leaves))])

\* C19: a WHERE clause L1 c1 L2 c2 ... Ln, each ci AND or OR and each Li a
\* comparison, an IN, an IS [NOT] NULL or an EXISTS leaf, evaluates to the
\* left-to-right fold ((L1 c1 L2) c2 L3) ...; A OR B AND C is (A OR B) AND C
\* and L1 OR L2 is true whenever either leaf is.
C19_LeftToRightFold ==
  SelectedBothTables
  => \A clause \in PlainClauses \cup ExistsClauses :
       last.stmt = Folded(clause) => ReturnsFold(clause, last.before["O"], last.before["I"])

\* the same, for the clauses without an EXISTS leaf
C19_FoldOfPlainLeaves ==
  SelectedBothTables
  => \A clause \in PlainClauses :
       last.stmt = Folded(clause) => ReturnsFold(clause, last.before["O"], last.before["I"])

ORow(d, e) == <<[c |-> ColD, v |-> Num(d)], [c |-> ColE, v |-> Num(e)]>>

\* WHERE d = 1 OR EXISTS (SELECT 1 FROM I) over O = {(1, 1)} and I = {1},
\* both leaves true, has returned no row
C19_Witness ==
  /\ SelectedBothTables
  /\ last.ok
  /\ last.stmt = Folded([leaves |-> <<LeafD, LeafExists>>, connectives |-> <<"OR">>])
  /\ last.before["O"] = <<ORow(1, 1)>>
  /\ last.before["I"] = <<<<[c |-> ColC, v |-> Num(1)]>>>>
  /\ last.rows = <<>>

\* WHERE d = 1 OR e = 1 AND d IN (1, 2) over O = {(1, 2), (3, 1)} has
\* returned the row (1, 2) alone: (A OR B) AND C
C19_PlainWitness ==
  /\ SelectedBothTables
  /\ last.stmt = Folded([leaves |-> <<LeafD, LeafE, LeafIn>>, connectives |-> <<"OR", "AND">>])
  /\ last.before["O"] = <<ORow(1, 2), ORow(3, 1)>>
  /\ last.rows = <<ORow(1, 2)>>

-----------------------------------------------------------------------------
(* SpecAggregate: SUM, MAX and MIN of amount per user_id over orders        *)

AggregateFunctions == {"SUM", "MAX", "MIN"}

\* the expression fn(amount) as written in the column list
AggregateOf(fn) == <<fn, "(">> \o Amount \o <<")">>

\* SELECT user_id, fn(amount) FROM orders GROUP BY user_id
AggregatePerUser(fn) ==
  [Query(<<UserId, AggregateOf(fn)>>, "orders", <<>>) EXCEPT !.groupBy = <<UserId>>]

NextAggregate ==
  \/ ExecCreateTable("orders", OrdersDefs)
  \/ \E u \in UserIds : ExecInsertOrder(u)
  \/ \E fn \in AggregateFunctions : ExecSelect(AggregatePerUser(fn))

SpecAggregate == Init /\ [][NextAggregate]_vars

\* the amounts of the rows of data with user_id u
AmountsOf(data, u) ==
  {Get(data[i], Amount).n : i \in {j \in 1..Len(data) : Get(data[j], UserId) = Num(u)}}

\* the sum of the amounts of the first n rows of data with user_id u
RECURSIVE SumOf(_, _, _)
SumOf(data, u, n) ==
  IF n = 0 THEN 0
  ELSE SumOf(data, u, n - 1)
       + (IF Get(data[n], UserId) = Num(u) THEN Get(data[n], Amount).n ELSE 0)

\* the value of fn(amount) over the rows of data with user_id u
AggregateValue(fn, data, u) ==
  CASE fn = "SUM" -> SumOf(data, u, Len(data))
    [] fn = "MAX" -> CHOOSE m \in AmountsOf(data, u) : \A a \in AmountsOf(data, u) : a <= m
    [] fn = "MIN" -> CHOOSE m \in AmountsOf(data, u) : \A a \in AmountsOf(data, u) : m <= a

\* C21: in a GROUP BY query that projects SUM(col), MAX(col) or MIN(col),
\* each output row carries a field keyed by that expression whose value is
\* the sum, maximum or minimum of the numeric col values of the rows of its
\* group.
C21_Aggregates ==
  \A fn \in AggregateFunctions :
    (last.op = "select" /\ last.ok /\ last.stmt = AggregatePerUser(fn))
    => \A i \in 1..Len(last.rows) :
         /\ HasField(last.rows[i], AggregateOf(fn))
         /\ Get(last.rows[i], AggregateOf(fn))
            = Num(AggregateValue(fn, last.before["orders"], Get(last.rows[i], UserId).n))

\* SELECT user_id, SUM(amount) FROM orders GROUP BY user_id over the orders
\* (1,1,100), (2,1,200) has returned one row whose SUM(amount) is undefined
C21_Witness ==
  /\ last.op = "select" /\ last.ok
  /\ last.stmt = AggregatePerUser("SUM")
  /\ last.before["orders"] = <<Order(1, 1), Order(2, 1)>>
  /\ last.rows = <<<<[c |-> UserId, v |-> Num(1)],
                     [c |-> AggregateOf("SUM"), v |-> Undef]>>>>

-----------------------------------------------------------------------------
(* SpecChain: SELECT * FROM A <join> B ON ... <join> C ON ... over tables   *)
(* A(x, y), B(x, y), C(x, y)                                                *)

\* the join keywords of the chained statements, as written
ChainKinds == {<<"JOIN">>, <<"INNER", " ", "JOIN">>, <<"LEFT", " ", "JOIN">>}

\* t1.c1 = t2.c2
OnText(t1, c1, t2, c2) == <<t1, ".">> \o c1 \o <<" ", "=", " ", t2, ".">> \o c2

\* A <kind> B ON A.x = B.x
TwoTables(kind) ==
  <<"A", " ">> \o kind \o <<" ", "B", " ", "ON", " ">> \o OnText("A", ColX, "B", ColX)

\* A <kind1> B ON A.x = B.x <kind2> C ON B.y = C.y
Chained(kind1, kind2) ==
  TwoTables(kind1) \o <<" ">> \o kind2 \o <<" ", "C", " ", "ON", " ">>
  \o OnText("B", ColY, "C", ColY)

SelectFrom(from) == [columns |-> Star, from |-> from]

NextChain ==
  \/ \E tableName \in {"A", "B", "C"} : ExecCreateTable(tableName, XYDefs)
  \/ \E tableName \in {"A", "B"}, p \in Pairs :
       Room(tableName, MaxRows)
       /\ ExecInsert(tableName, <<ColX, ColY>>, <<NumLit(p[1]), NumLit(p[2])>>)
  \/ Room("C", 1) /\ ExecInsert("C", <<ColX, ColY>>, <<NumLit(2), NumLit(2)>>)
  \/ \E kind \in ChainKinds : ExecSelectFromJoin(Star, TwoTables(kind))
  \/ \E kind1, kind2 \in ChainKinds : ExecSelectFromJoin(Star, Chained(kind1, kind2))

SpecChain == Init /\ [][NextChain]_vars

\* C22: a SELECT whose FROM clause chains more than one JOIN fails with an
\* error; it never returns rows computed from only the first two tables.
C22_ChainedJoinFails ==
  \A kind1, kind2 \in ChainKinds :
    (last.op = "join" /\ last.stmt = SelectFrom(Chained(kind1, kind2))) => ~last.ok

\* a chained statement returns what the statement over its first two
\* tables returns
C22_ChainIsTwoTableJoin ==
  \A kind1, kind2 \in ChainKinds :
    (last.op = "join" /\ last.stmt = SelectFrom(Chained(kind1, kind2)))
    => /\ last.ok = selectWithJoin(Before, fromJoinMatch(Star, TwoTables(kind1))).ok
       /\ last.rows = selectWithJoin(Before, fromJoinMatch(Star, TwoTables(kind1))).rows

\* SELECT * FROM A JOIN B ON A.x = B.x JOIN C ON B.y = C.y over A = (1, 1),
\* B = (1, 2) and C = (2, 2) has returned the one merged row of A and B
C22_Witness ==
  /\ last.op = "join" /\ last.ok
  /\ last.stmt = SelectFrom(Chained(<<"JOIN">>, <<"JOIN">>))
  /\ "C" \in DOMAIN last.tablesBefore
  /\ last.before["A"] = <<<<[c |-> ColX, v |-> Num(1)], [c |-> ColY, v |-> Num(1)]>>>>
  /\ last.before["B"] = <<<<[c |-> ColX, v |-> Num(1)], [c |-> ColY, v |-> Num(2)]>>>>
  /\ last.before["C"] = <<<<[c |-> ColX, v |-> Num(2)], [c |-> ColY, v |-> Num(2)]>>>>
  /\ last.rows = <<<<[c |-> Qualified("A", ColX), v |-> Num(1)],
                     [c |-> Qualified("A", ColY), v |-> Num(1)],
                     [c |-> Qualified("B", ColX), v |-> Num(1)],
                     [c |-> Qualified("B", ColY), v |-> Num(2)]>>>>

-----------------------------------------------------------------------------
(* SpecLeaf: SELECT, UPDATE and DELETE over t(a, b) with WHERE clauses that *)
(* hold a leaf of no leaf form, or a subquery over a table that is absent   *)

\* "a", "a EQUALS 1", "a = 1 AND a", "a = 1 OR a EQUALS 1": each holds a
\* leaf without LIKE, IN, BETWEEN, IS NULL or a comparison operator
Unrecognised ==
  {ColA,
   ColA \o <<" ", "EQUALS", " ", "1">>,
   Cmp(ColA, "=", NumLit(1)) \o <<" ", "AND", " ">> \o ColA,
   Cmp(ColA, "=", NumLit(1)) \o <<" ", "OR", " ">> \o ColA \o <<" ", "EQUALS", " ", "1">>}

\* a IN (SELECT c FROM I), no table I existing
InMissingTable == ColA \o <<" ", "IN", " ", "(", "SELECT c FROM I", ")">>

LeafWheres == Unrecognised \cup {InMissingTable, Cmp(ColA, "=", NumLit(1))}

LeafRows == {<<NumLit(1), TextLit(<<"x">>)>>, <<NumLit(2), TextLit(<<"y">>)>>}

NextLeaf ==
  \/ ExecCreateTable("t", TDefs)
  \/ \E lits \in LeafRows : Room("t", MaxRows) /\ ExecInsert("t", <<ColA, ColB>>, lits)
  \/ \E w \in LeafWheres : ExecSelect(Query(Star, "t", w))
  \/ \E w \in LeafWheres : ExecUpdate("t", <<[col |-> ColB, lit |-> TextLit(<<"z">>)]>>, w)
  \/ \E w \in LeafWheres : ExecDelete("t", w)

SpecLeaf == Init /\ [][NextLeaf]_vars

\* a SELECT, UPDATE or DELETE over t, t holding a row, with WHERE clause w
Evaluated(w) ==
  /\ last.op \in {"select", "update", "delete"}
  /\ "t" \in DOMAIN last.tablesBefore
  /\ last.before["t"] # <<>>
  /\ last.stmt.where = w

\* C23: a WHERE clause containing a leaf that matches no leaf form, in
\* SELECT, UPDATE or DELETE, makes the statement fail with an error (the
\* leaf is never silently treated as false), and a subquery failure inside
\* a leaf also fails the statement.
C23_MalformedLeafFails ==
  \A w \in Unrecognised \cup {InMissingTable} : Evaluated(w) => ~last.ok

\* the part of C23 about a subquery that fails
C23_SubqueryFailureFails == Evaluated(InMissingTable) => ~last.ok

\* DELETE FROM t WHERE a EQUALS 1 over t = (1, 'x') has returned, deleting
\* no row
C23_Witness ==
  /\ Evaluated(ColA \o <<" ", "EQUALS", " ", "1">>)
  /\ last.op = "delete" /\ last.ok
  /\ last.before["t"] = <<<<[c |-> ColA, v |-> Num(1)], [c |-> ColB, v |-> Str(<<"x">>)]>>>>
  /\ last.count = 0
  /\ store["t"] = last.before["t"]

\* SELECT * FROM t WHERE a = 1 OR a EQUALS 1 has returned the row with a = 1
C23_SelectWitness ==
  /\ Evaluated(Cmp(ColA, "=", NumLit(1)) \o <<" ", "OR", " ">> \o ColA \o <<" ", "EQUALS", " ", "1">>)
  /\ last.op = "select" /\ last.ok
  /\ last.rows = <<<<[c |-> ColA, v |-> Num(1)], [c |-> ColB, v |-> Str(<<"x">>)]>>>>

\* UPDATE t SET b = 'z' WHERE a IN (SELECT c FROM I) has thrown
C23_SubqueryWitness ==
  /\ Evaluated(InMissingTable)
  /\ last.op = "update" /\ ~last.ok

-----------------------------------------------------------------------------
(* SpecAbort: UPDATE and DELETE over t(a, b) whose WHERE clause throws      *)

\* EXISTS (SELECT 1 FROM I), no table I existing
ExistsMissingTable == <<"EXISTS", " ", "(", "SELECT 1 FROM I", ")">>

\* EXISTS (SELECT 1 FROM (SELECT * FROM t WHERE a = 1) AS t WHERE)
ExistsDerived ==
  <<"EXISTS", " ", "(", "SELECT 1 FROM (SELECT * FROM t WHERE a = 1) AS t WHERE", ")">>

\* the clauses over a table that does not exist
MissingTable == {InMissingTable, ExistsMissingTable}

AbortWheres == MissingTable \cup {ExistsDerived, Cmp(ColA, "=", NumLit(1))}

NextAbort ==
  \/ ExecCreateTable("t", TDefs)
  \/ \E lits \in LeafRows : Room("t", MaxRows) /\ ExecInsert("t", <<ColA, ColB>>, lits)
  \/ \E w \in AbortWheres :
       ExecUpdate("t", <<[col |-> ColB, lit |-> TextLit(<<"z">>)]>>, w)
  \/ \E w \in AbortWheres : ExecDelete("t", w)

SpecAbort == Init /\ [][NextAbort]_vars

\* an UPDATE or DELETE over t, t holding a row
Modifying ==
  /\ last.op \in {"update", "delete"}
  /\ "t" \in DOMAIN last.tablesBefore
  /\ last.before["t"] # <<>>

\* C24: if predicate evaluation throws for a row during an UPDATE or
\* DELETE, the statement throws and the target table's stored rows are
\* exactly as before the statement; a statement that returns leaves every
\* other entry of the store as it was.
C24_AbortLeavesRows ==
  Modifying
  => /\ last.stmt.where \in MissingTable \cup {ExistsDerived} => ~last.ok
     /\ ~last.ok => getTableData(store, "t") = last.before["t"]
     /\ last.ok => \A n \in (DOMAIN store \cup DOMAIN last.before) \ {"t"} :
                     getTableData(store, n) = getTableData(last.before, n)

\* the same for the clauses whose subquery reads a table that does not
\* exist
C24_AbortOnMissingTable ==
  (Modifying /\ last.stmt.where \in MissingTable)
  => (~last.ok /\ store = last.before /\ tables = last.tablesBefore)

TRow(a, b) == <<[c |-> ColA, v |-> Num(a)], [c |-> ColB, v |-> Str(<<b>>)]>>

\* DELETE FROM t WHERE EXISTS (SELECT 1 FROM (SELECT * FROM t WHERE a = 1)
\* AS t WHERE) over t = (1, 'x'), (2, 'y') has thrown and t holds (1, 'x')
C24_Witness ==
  /\ Modifying
  /\ last.op = "delete" /\ ~last.ok
  /\ last.stmt.where = ExistsDerived
  /\ last.before["t"] = <<TRow(1, "x"), TRow(2, "y")>>
  /\ store["t"] = <<TRow(1, "x")>>

\* UPDATE t SET b = 'z' WHERE a IN (SELECT c FROM I) over t = (1, 'x'),
\* (2, 'y') has thrown and t is as before
C24_MissingTableWitness ==
  /\ Modifying
  /\ last.op = "update" /\ ~last.ok
  /\ last.stmt.where = InMissingTable
  /\ last.before["t"] = <<TRow(1, "x"), TRow(2, "y")>>
  /\ store["t"] = last.before["t"]

-----------------------------------------------------------------------------
(* SpecNested: SELECT statements given as text over O(d), I(c) and J(c),    *)
(* the text holding a UNION at its top level or inside a subquery           *)

\* SELECT c FROM tableName
SelectC(tableName) == <<"SELECT", " ", "c", " ", "FROM", " ", tableName>>

\* first UNION second
UnionOf(first, second) == first \o <<" ", "UNION", " ">> \o second

\* SELECT * FROM O WHERE d IN (subquery)
InSub(subquery) ==
  <<"SELECT", " ", "*", " ", "FROM", " ", "O", " ", "WHERE", " ", "d", " ", "IN", " ", "(">>
  \o subquery \o <<")">>

\* SELECT * FROM (subquery) AS u
FromSub(subquery) ==
  <<"SELECT", " ", "*", " ", "FROM", " ", "(">> \o subquery \o <<")", " ", "AS", " ", "u">>

BothC == UnionOf(SelectC("I"), SelectC("J"))

NestedTexts ==
  {InSub(BothC), FromSub(BothC), InSub(SelectC("I")), FromSub(SelectC("I")), BothC}

NextNested ==
  \/ ExecCreateTable("O", ODefs)
  \/ \E tableName \in {"I", "J"} : ExecCreateTable(tableName, IDefs)
  \/ \E n \in 1..2 : Room("O", MaxRows) /\ ExecInsert("O", <<ColD>>, <<NumLit(n)>>)
  \/ \E tableName \in {"I", "J"}, n \in 1..2 :
       Room(tableName, MaxRows) /\ ExecInsert(tableName, <<ColC>>, <<NumLit(n)>>)
  \/ \E text \in NestedTexts : ExecSelectText(text)

SpecNested == Init /\ [][NextNested]_vars

\* the statement with this text has run, O, I and J existing
Ran(text) ==
  /\ last.op = "select" /\ last.stmt = [text |-> text]
  /\ {"O", "I", "J"} \subseteq DOMAIN last.tablesBefore

\* the values of column c in the rows
CValues(data) == {Get(data[i], ColC) : i \in 1..Len(data)}

\* the rows of O whose d is among the values
DAmong(data, values) == Pick(data, [i \in 1..Len(data) |-> Get(data[i], ColD) \in values])

\* C26: a SELECT whose only UNION lies inside a parenthesized subquery (an
\* IN subquery or a derived table) runs as one outer statement, the union
\* evaluated inside the subquery: the text is not split at that UNION.
C26_UnionInsideSubquery ==
  /\ Ran(InSub(BothC)) =>
       /\ last.ok
       /\ last.rows = DAmong(last.before["O"],
                             CValues(last.before["I"]) \cup CValues(last.before["J"]))
  /\ Ran(FromSub(BothC)) =>
       /\ last.ok
       /\ CValues(last.rows) = CValues(last.before["I"]) \cup CValues(last.before["J"])

\* the same statements with no UNION in the subquery, and the UNION as a
\* statement of its own, return these rows
C26_WithoutNesting ==
  /\ Ran(InSub(SelectC("I"))) =>
       last.ok /\ last.rows = DAmong(last.before["O"], CValues(last.before["I"]))
  /\ Ran(FromSub(SelectC("I"))) =>
       last.ok /\ last.rows = last.before["I"]
  /\ Ran(BothC) =>
       /\ last.ok
       /\ CValues(last.rows) = CValues(last.before["I"]) \cup CValues(last.before["J"])

\* every statement with the UNION inside a subquery throws
C26_NestedUnionThrows ==
  (Ran(InSub(BothC)) \/ Ran(FromSub(BothC))) => ~last.ok

\* SELECT * FROM O WHERE d IN (SELECT c FROM I UNION SELECT c FROM J) has
\* thrown over O = (1), I = (1), J = (2)
C26_Witness ==
  /\ Ran(InSub(BothC))
  /\ CValues(last.before["I"]) = {Num(1)}
  /\ CValues(last.before["J"]) = {Num(2)}
  /\ Len(last.before["O"]) = 1 /\ Get(last.before["O"][1], ColD) = Num(1)
  /\ ~last.ok

\* SELECT * FROM (SELECT c FROM I UNION SELECT c FROM J) AS u has thrown
C26_DerivedWitness ==
  /\ Ran(FromSub(BothC))
  /\ last.before["I"] # <<>> /\ last.before["J"] # <<>>
  /\ ~last.ok

\* SELECT * FROM O WHERE d IN (SELECT c FROM I) has returned a row
C26_PlainWitness ==
  /\ Ran(InSub(SelectC("I")))
  /\ last.ok /\ last.rows # <<>>

====
